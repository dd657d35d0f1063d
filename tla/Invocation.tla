----------------------------- MODULE Invocation -----------------------------
(***************************************************************************)
(* From a command line to a command's environment: main and _parse_flags   *)
(* of src/hozo/cli.py, load_profile and parse_profile of profiles.py, the  *)
(* merge (PolicyMerge), SandboxRunner and get_backend, and build_env.      *)
(*                                                                         *)
(* A library caller starts at the merge, with any layers. A document is    *)
(* what a reader takes it to say (layer), the sections of another shape    *)
(* than the code expects (loose) and those with a value it refuses (bad).  *)
(***************************************************************************)
EXTENDS PolicyMerge, SequencesExt

CONSTANTS
    Argvs,     \* the command lines that may be given
    Docs,      \* the YAML documents the user's profiles may be
    Builtin,   \* the built-in profiles: a document or Unset, per name
    Within,    \* of a section that may be loose: the items it holds
    Covers,    \* the variables an item lets through, if it is an env_allow pattern
    HostEnv,   \* hozo's own environment
    ProxyKeys, \* the variables of proxy_env
    TmpKeys,   \* TMPDIR
    ClearOff,  \* a clear_env that is off
    Scratch    \* the value that is {scratch}

Verbs == {"run", "explain", "profile", "audit"}
Systems == {"Linux", "Darwin", "other"}
BackendOf == [Linux |-> "bwrap", Darwin |-> "seatbelt"]
Kinds == {"profile", "audit", "option", "flag", "net", "env", "bind", "word", "help", "unknown", "version", "sep"}
Tolerated == {"network", "process", "special", "proxy"}

VARIABLES
    argv,    \* the command line; empty for a library caller
    cli,     \* how far main has come
    walk,    \* the tokens _parse_flags has not walked yet
    words,   \* the positional ones
    system,  \* platform.system(), known once it is asked for
    found,   \* per profile: its name, the user's document or Unset, the one loaded
    final,   \* the environment the command is given
    status   \* the exit status, once main returns

cvars == <<argv, cli, walk, words, system, found, final, status>>
ivars == <<vars, cvars>>

\* SandboxRequest(), and PolicyMerge's fields for it.
Fresh ==
    [binds |-> <<>>, env |-> [k \in Keys |-> Unset], network |-> Unset, items |-> {}, passes |-> {},
     project |-> Unset, no_base |-> FALSE, override |-> FALSE, bind_project |-> TRUE]

ASSUME FreshAssumption == Fresh \in Requests

\* What a token may be of. Only env_allow patterns let variables through.
ASSUME TokensAssumption ==
    \A tokens \in Argvs : tokens \in Seq(ToSet(tokens)) /\ \A token \in ToSet(tokens) :
      /\ token.is \in Kinds
      /\ token.is = "profile" => token.of \in DOMAIN Builtin
      /\ token.is = "flag" => token.of \in {"no_base", "override"}
      /\ token.is = "option" => token.of \in {"project", "network"}
      /\ token.is = "word" => token.of \in Words
      /\ token.is = "bind" => token.of \in Seq(RawBinds)
      /\ token.is = "env" => token.of \subseteq Items /\ token.of # Unset
      /\ token.is = "net" /\ token.of # Unset => token.of \subseteq Items /\ \A i \in token.of : Covers[i] = {}
ASSUME DocsAssumption ==
    /\ {"base", "base-macos"} \subseteq DOMAIN Builtin
    /\ \A d \in Docs \cup {Builtin[n] : n \in DOMAIN Builtin} : d # Unset => d.layer \in LayerSet
    /\ Unset \notin Docs
ASSUME EnvironmentAssumption ==
    /\ Covers \in [Items -> SUBSET Keys]
    /\ \A r \in Requests : r.passes = UNION {Covers[i] : i \in r.items}
    /\ ProxyKeys \cap TmpKeys = {}
    /\ Unset \notin {"tmp", "proxy"} /\ ClearOff \in Raw
    /\ Scratch \in Literal \ (Paths \cup {User, Empty, Relative, Unknown})

IInit ==
    /\ Init /\ words = <<>> /\ walk = <<>> /\ found = <<>>
    /\ final = [k \in Keys |-> Unset] /\ status = "none"
    /\ \/ argv = <<>> /\ cli = "library" /\ system = "Linux"
       \/ argv \in Argvs /\ cli = "argv" /\ system = "unknown" /\ request = Fresh

-----------------------------------------------------------------------------
(* The command line. A token is what it is and what it is of.              *)

At(token) == SelectInSeq(argv, LAMBDA t : t.is = token)
Left == IF At("sep") = 0 THEN argv ELSE SubSeq(argv, 1, At("sep") - 1)
Command == IF At("sep") = 0 THEN <<>> ELSE SubSeq(argv, At("sep") + 1, Len(argv))
Apart == {"profile", "audit"}
Dash(token) == token.is \notin {"profile", "word"}

\* The tokens of some kinds, in their order.
Keep(tokens, kinds) ==
    LET kept[n \in 0..Len(tokens)] ==
          IF n = 0 THEN <<>>
          ELSE IF tokens[n].is \in kinds THEN Append(kept[n - 1], tokens[n]) ELSE kept[n - 1]
    IN  kept[Len(tokens)]
Profiles == Keep(Left, {"profile"})
Names == [i \in DOMAIN Profiles |-> Profiles[i].of]

Quit(how) == cli' = "over" /\ status' = how

\* argv is split at the first "--"; --version counts before any other option.
Split ==
    /\ cli = "argv"
    /\ IF argv = <<>> \/ \E i \in DOMAIN Left : Left[i].is = "version"
         THEN Quit("0") /\ UNCHANGED walk
         ELSE cli' = "flags" /\ walk' = Keep(Left, Kinds \ Apart) /\ UNCHANGED status
    /\ UNCHANGED <<vars, argv, words, system, found, final>>

\* Mutant: the value of an option may be another option.
TakesAny(token) == token.is = "option" /\ Len(walk) > 1

\* An option and its value, which does not start with "-".
Takes(token) == token.is = "option" /\ Len(walk) > 1 /\ ~Dash(walk[2])

\* What a token that stands alone makes of the request.
Granted(token) ==
    CASE token.is = "flag" -> [request EXCEPT ![token.of] = TRUE]
      [] token.is = "net" /\ token.of = Unset -> [request EXCEPT !.network = "host"]
      [] token.is = "net" /\ token.of # Unset ->
           [request EXCEPT !.network = "proxy", !.items = @ \cup token.of]
      [] token.is = "env" ->
           [request EXCEPT !.items = @ \cup token.of,
                           !.passes = @ \cup UNION {Covers[i] : i \in token.of}]
      [] token.is = "bind" -> [request EXCEPT !.binds = @ \o token.of]
      [] OTHER -> request

\* One round of _parse_flags.
ParseFlag ==
    /\ cli = "flags" /\ walk # <<>>
    /\ LET token == Head(walk)
       IN  \/ /\ Takes(token)
              /\ request' = [request EXCEPT ![token.of] = walk[2].of]
              /\ walk' = Tail(Tail(walk)) /\ UNCHANGED <<cli, status, words>>
           \/ /\ token.is \in {"flag", "net", "env", "bind", "word"}
              /\ request' = Granted(token)
              /\ words' = IF token.is = "word" THEN Append(words, token.of) ELSE words
              /\ walk' = Tail(walk) /\ UNCHANGED <<cli, status>>
           \/ /\ token.is \in {"help", "unknown"} \/ (token.is = "option" /\ ~Takes(token))
              /\ Quit(IF token.is = "help" THEN "0" ELSE "2")
              /\ UNCHANGED <<request, walk, words>>
    /\ UNCHANGED <<stage, past, todo, asks, binds, env, items, network, last, argv, system, found, final>>

Verb == IF words # <<>> /\ words[1] \in Verbs THEN words[1] ELSE "run"

\* The verb decides: a listing, the audit (Session and Mounts have it), a usage
\* error, or a policy to resolve.
Dispatch ==
    /\ cli = "flags" /\ walk = <<>>
    /\ \/ Verb = "profile" /\ Quit(IF Len(words) > 1 /\ words[2] = "list" THEN "0" ELSE "2")
       \/ /\ Verb # "profile"
          /\ Command = <<>> \/ (Verb # "audit" /\ \E i \in DOMAIN Left : Left[i].is = "audit")
          /\ Quit("2")
       \/ Verb = "audit" /\ Command # <<>> /\ Quit("audit")
       \/ /\ Verb \in {"run", "explain"} /\ Command # <<>> /\ \A i \in DOMAIN Left : Left[i].is # "audit"
          /\ cli' = "load" /\ UNCHANGED status
    /\ system' \in Systems
    /\ UNCHANGED <<vars, argv, walk, words, found, final>>

-----------------------------------------------------------------------------
(* The profiles.                                                           *)

BaseName == IF system = "Darwin" THEN "base-macos" ELSE "base"
Wanted == (IF request.no_base THEN <<>> ELSE <<BaseName>>) \o Names

\* Mutant: no section has to have the shape expected of it.
RejectedBad(doc) == doc.bad # {}

\* parse_profile raises; else the sections it does not understand say nothing.
Rejected(doc) == doc.bad # {} \/ doc.loose \ Tolerated # {}
Parsed(doc) ==
    [doc.layer EXCEPT
       !.network = IF "network" \in doc.loose THEN Unset ELSE @,
       !.last = [f \in Fields |-> IF "process" \in doc.loose /\ f \in {"cwd", "clear_env"} THEN Unset ELSE @[f]],
       !.items = @ \ UNION {Within[s] : s \in doc.loose \cap DOMAIN Within}]

\* The user's file of that name, if there is one now, else the built-in. The
\* file may be gone, or no text, when it is read: no HozoError.
Load ==
    /\ cli = "load" /\ Len(found) < Len(Wanted)
    /\ LET name == Wanted[Len(found) + 1]
       IN  \E user \in Docs \cup {Unset} :
             LET doc == IF user # Unset THEN user ELSE Builtin[name]
             IN  \/ /\ doc # Unset /\ ~Rejected(doc)
                    /\ found' = Append(found, [name |-> name, user |-> user, doc |-> doc])
                    /\ UNCHANGED <<cli, status>>
                 \/ /\ doc = Unset \/ (doc # Unset /\ Rejected(doc))
                    /\ Quit("1") /\ UNCHANGED found
                 \/ user # Unset /\ Quit("traceback") /\ UNCHANGED found
    /\ UNCHANGED <<vars, argv, walk, words, system, final>>

Loaded ==
    /\ cli = "load" /\ Len(found) = Len(Wanted)
    /\ cli' = "merge"
    /\ UNCHANGED <<vars, argv, walk, words, system, found, final, status>>

MergeFound ==
    /\ cli = "merge" /\ Len(past) < Len(found)
    /\ LET layer == Parsed(found[Len(past) + 1].doc) IN MergeLayer(layer) \/ LayerConflicts(layer)
    /\ UNCHANGED cvars

MergeAny ==
    /\ cli = "library"
    /\ \E l \in Layers : MergeLayer(l) \/ LayerConflicts(l)
    /\ UNCHANGED cvars

Resolve ==
    /\ \/ cli = "library" /\ (LayerBind \/ LayersMerged \/ Rest)
       \/ cli = "merge" /\ (LayerBind \/ (Len(past) = Len(found) /\ LayersMerged) \/ Rest)
    /\ UNCHANGED cvars

ResolveRaises ==
    /\ cli \in {"library", "merge"} /\ stage \in {"conflict", "invalid"}
    /\ Quit("1")
    /\ UNCHANGED <<vars, argv, walk, words, system, found, final>>

-----------------------------------------------------------------------------
(* SandboxRunner, and the environment a backend builds.                    *)

FromSet(k) == IF env[k] = Scratch THEN "tmp" ELSE env[k]
FromHost(k) ==
    IF last["clear_env"] = ClearOff \/ \E i \in items : k \in Covers[i] THEN HostEnv[k] ELSE Unset

\* Mutant: what a profile sets wins over the proxy.
BuildEnvSetWins(ported) ==
    [k \in Keys |-> Or(FromSet(k), IF ported /\ k \in ProxyKeys THEN "proxy" ELSE FromHost(k))]

BuildEnv(ported) ==
    [k \in Keys |-> IF ported /\ k \in ProxyKeys THEN "proxy" ELSE Or(FromSet(k), FromHost(k))]

\* explain prints the policy and exits. get_backend raises on another system,
\* describe where the backend would (SeatbeltBackend refuses any tmpfs).
Explain ==
    /\ cli = "merge" /\ stage = "resolved" /\ Verb = "explain"
    /\ Quit("1") \/ (system \in DOMAIN BackendOf /\ Quit("0"))
    /\ UNCHANGED <<vars, argv, walk, words, system, found, final>>

\* get_backend raises on another system, _policy where the backend is not
\* installed, and run may raise before it spawns anything.
RunRaises ==
    /\ cli \in {"library", "merge"} /\ stage = "resolved" /\ Verb = "run"
    /\ Quit("1") \/ (system \in DOMAIN BackendOf /\ Quit("traceback"))
    /\ UNCHANGED <<vars, argv, walk, words, system, found, final>>

\* The backend is there, and the command runs. Seatbelt points TMPDIR at the scratch.
Run ==
    /\ cli \in {"library", "merge"} /\ stage = "resolved" /\ Verb = "run"
    /\ system \in DOMAIN BackendOf
    /\ final' = [k \in Keys |-> IF BackendOf[system] = "seatbelt" /\ k \in TmpKeys
                                  THEN "tmp" ELSE BuildEnv(network = "proxy")[k]]
    /\ Quit("command")
    /\ UNCHANGED <<vars, argv, walk, words, system, found>>

INext ==
    \/ Split \/ ParseFlag \/ Dispatch
    \/ Load \/ Loaded \/ MergeFound \/ MergeAny \/ Resolve \/ ResolveRaises
    \/ Explain \/ RunRaises \/ Run

ISpec == IInit /\ [][INext]_ivars
-----------------------------------------------------------------------------
(* Properties.                                                             *)

ITypeOK ==
    /\ argv \in Argvs \cup {<<>>}
    /\ cli \in {"library", "argv", "flags", "load", "merge", "over"}
    /\ system \in Systems \cup {"unknown"}
    /\ \A i \in DOMAIN found : found[i].doc \in Docs \cup {Builtin[n] : n \in DOMAIN Builtin}
    /\ final \in [Keys -> EnvValues \cup {"tmp", "proxy"} \cup {HostEnv[k] : k \in Keys}]
    /\ status \in {"none", "0", "1", "2", "audit", "traceback", "command"}

Says(i, what) == Left[i].is = what \/ (Left[i].is = "option" /\ Left[i].of = what)
\* The token after the i-th, not counting profiles and audit options.
ValueOf(i) ==
    LET after == {j \in i + 1..Len(Left) : Left[j].is \notin Apart} IN Left[Min(after)].of
NetworkSaid ==
    LET says == {i \in DOMAIN Left : Left[i].is = "net" \/ Says(i, "network")}
        i == Max(says)
    IN  CASE says = {} -> Unset
          [] says # {} /\ Left[i].is = "option" -> ValueOf(i)
          [] OTHER -> IF Left[i].of = Unset THEN "host" ELSE "proxy"

\* "Grants (deny-by-default)" (cli.py:30): what the request asks for is what the
\* tokens left of the first "--" say, each of them, wherever it stands among
\* profiles and options; of several that name the network the last one counts.
\* Nothing of the command's own arguments is a grant.
GrantsAreSpelled ==
    cli = "load" \/ (argv # <<>> /\ status = "command") =>
      /\ request.network = NetworkSaid
      /\ request.items = UNION {Left[i].of : i \in {j \in DOMAIN Left : Left[j].is \in {"net", "env"} /\ Left[j].of # Unset}}
      /\ request.passes = UNION {Covers[i] : i \in request.items}
      /\ ToSet(request.binds) = UNION {ToSet(Left[i].of) : i \in {j \in DOMAIN Left : Left[j].is = "bind"}}
      /\ \A f \in {"no_base", "override"} : request[f] <=> \E i \in DOMAIN Left : Says(i, "flag") /\ Left[i].of = f

\* The command runs under all of the policy it was asked to run under, or not at
\* all: each profile of the command line, in its order and the base first, was
\* found, the user's file before a built-in one, and what its document says is
\* in the policy. A section in a shape nobody expects only goes unheeded where
\* the code tolerates it.
RunsAsAsked ==
    argv # <<>> /\ status = "command" =>
      /\ system # "other" /\ Command # <<>>
      /\ Len(found) = Len(Wanted) /\ \A i \in DOMAIN found : found[i].name = Wanted[i]
      /\ \A i \in DOMAIN found :
           LET doc == found[i].doc
               says(section) == section \notin doc.loose
           IN  /\ doc.bad = {} /\ doc.loose \subseteq Tolerated
               /\ found[i].user # Unset => doc = found[i].user
               /\ doc.layer.network # Unset /\ says("network") /\ request.network = Unset
                    => Rank[network] <= Rank[doc.layer.network]
               /\ \A item \in doc.layer.items \ items :
                    \E s \in DOMAIN Within : item \in Within[s] /\ ~says(s)
               /\ \A n \in DOMAIN doc.layer.binds :
                    LET source == Expand[doc.layer.binds[n].source]
                    IN  source \in Paths => \E m \in DOMAIN binds : binds[m].source = source

\* The value a variable has in the command's environment: the proxy's and the
\* backend's own before any other; the host's where the request asks for it
\* ("Requested passthroughs use the host value, not a default"), though a
\* profile sets it; else the request's, else the last layer's that sets it, else
\* its default; and of the rest of the host's only what a layer lets through.
CommandEnvironment ==
    status = "command" => \A k \in Keys :
      LET setters == {i \in DOMAIN past : past[i].env[k] # Unset}
          clears == {i \in DOMAIN past : past[i].last["clear_env"] # Unset}
          expanded(v) == IF v = Scratch THEN "tmp" ELSE IF v \in Literal THEN v ELSE Expand[v]
          through == \/ k \in request.passes
                     \/ \E i \in DOMAIN past : \E p \in past[i].items : k \in Covers[p]
                     \/ clears # {} /\ past[Max(clears)].last["clear_env"] = ClearOff
          set == CASE k \in request.passes -> Unset
                   [] k \notin request.passes /\ request.env[k] # Unset -> expanded(request.env[k])
                   [] k \notin request.passes /\ request.env[k] = Unset /\ setters # {} ->
                        expanded(past[Max(setters)].env[k])
                   [] OTHER -> DefaultOf(k)
      IN  CASE network = "proxy" /\ k \in ProxyKeys -> final[k] = "proxy"
            [] system = "Darwin" /\ k \in TmpKeys -> final[k] = "tmp"
            [] OTHER -> final[k] = IF set # Unset THEN set ELSE IF through THEN HostEnv[k] ELSE Unset
=============================================================================
