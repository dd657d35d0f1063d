---------------------------- MODULE PolicyMerge ----------------------------
(***************************************************************************)
(* resolve_policy of src/hozo/policy.py: the base and the named profiles   *)
(* are merged one after the other, then the request's own fields.          *)
(*                                                                         *)
(* One action per layer, and one per call of _add_bind, the only part of   *)
(* the merge that depends on what came before. Lists that are only united  *)
(* (env_allow, tmpfs, proxy_allow_hosts, syscall_deny, prepend_path, and   *)
(* the flags proc and dev) are one set of tagged items; fields of which    *)
(* the last layer's value counts are one function.                         *)
(***************************************************************************)
EXTENDS Naturals, Sequences

CONSTANTS
    Layers,     \* the profiles that may be named, as parse_profile returns them
    Requests,   \* the requests that may be made
    MaxLayers,  \* bound on the profiles of one request
    Words,      \* strings a caller may give as the network or the project
    Raw,        \* strings as a profile or a request spells them
    Expand,     \* what expand_path makes of them
    Literal,    \* environment values with no placeholder but {scratch}
    Paths,      \* absolute paths
    Project,    \* the project's path
    Default,    \* what the strings ResolvedPolicy starts from expand to, per field
    User,       \* the user's name
    Items,      \* members of the united lists
    Malformed,  \* host patterns with a port that valid_port_spec refuses
    Unresolvable,  \* entries of prepend_path with a placeholder nobody resolves
    Keys,       \* environment variables
    HomeKeys,   \* HOME and the XDG variables, which default to the home or below it
    UserKeys,   \* USER and LOGNAME
    Unset,      \* None, or a key that is absent
    Empty,      \* the empty string
    Relative,   \* any other string that is not an absolute path
    Unknown     \* a placeholder nobody resolves: expand_path raises

Fields == {"cwd", "home", "clear_env", "syscall_action"}
PathFields == {"cwd", "home"}
BindModes == {"ro", "rw"}
NetworkModes == {"none", "proxy", "host"}
Rank == [m \in NetworkModes |-> CASE m = "none" -> 0 [] m = "proxy" -> 1 [] m = "host" -> 2]

RawBinds == [source : Raw, mode : BindModes, optional : BOOLEAN]
Binds == [source : Paths, mode : BindModes, optional : BOOLEAN]

LayerSet ==
    [binds : Seq(RawBinds), env : [Keys -> Raw \cup {Unset}], network : NetworkModes \cup {Unset},
     last : [Fields -> Raw \cup {Unset}], items : SUBSET Items]
RequestSet ==
    [binds : Seq(RawBinds), env : [Keys -> Raw \cup {Unset}], network : Words \cup {Unset},
     items : SUBSET Items, passes : SUBSET Keys, project : Words \cup {Unset},
     no_base : BOOLEAN, override : BOOLEAN, bind_project : BOOLEAN]

ASSUME PathsAssumption ==
    /\ Project \in Paths
    /\ Expand \in [Raw -> Paths \cup {Empty, Relative, Unknown}]
    /\ {Empty, Relative, Unknown} \cap Paths = {} /\ Unknown \notin {Empty, Relative}
    /\ Unset \notin Raw \cup Paths \cup {User, Empty, Relative, Unknown}
    /\ Literal \subseteq Raw
    /\ Default \in [PathFields -> Paths \cup {Unset}]
ASSUME KeysAssumption == HomeKeys \cup UserKeys \subseteq Keys /\ HomeKeys \cap UserKeys = {}
ASSUME LayersAssumption ==
    /\ MaxLayers \in Nat
    /\ Layers \subseteq LayerSet /\ Requests \subseteq RequestSet
    /\ Malformed \cup Unresolvable \subseteq Items
    /\ NetworkModes \subseteq Words /\ Unset \notin Words

VARIABLES
    request,  \* the SandboxRequest, except its profiles
    stage,    \* how far resolve_policy has come, or the error it raised
    past,     \* the layers merged so far
    todo,     \* the binds of the current layer, or of the request, still to add
    asks,     \* the binds _add_bind was called with (a history variable)
    binds, env, items, network, last   \* the fields of the ResolvedPolicy

vars == <<request, stage, past, todo, asks, binds, env, items, network, last>>

Stages == {"layers", "project", "inline", "binds", "defaults", "resolved", "conflict", "invalid"}
EnvValues == Raw \cup Paths \cup {Unset, User, Empty, Relative}

Init ==
    /\ request \in Requests
    /\ stage = "layers"
    /\ past = <<>> /\ todo = <<>> /\ asks = <<>>
    /\ binds = <<>>
    /\ env = [k \in Keys |-> Unset]
    /\ items = {}
    /\ network = "none"
    /\ last = [f \in Fields |-> Unset]

Or(value, otherwise) == IF value # Unset THEN value ELSE otherwise

-----------------------------------------------------------------------------
(* _add_bind and _add_expanded_bind.                                       *)

First(i, source) == binds[i].source = source /\ \A j \in 1..(i - 1) : binds[j].source # source

\* Mutant: of two binds of one mode the later says whether it is optional.
AddBindLastOptional(b, override, next) ==
    /\ asks' = Append(asks, b)
    /\ \/ /\ \A i \in DOMAIN binds : binds[i].source # b.source
          /\ binds' = Append(binds, b) /\ stage' = next
       \/ \E i \in DOMAIN binds :
            /\ First(i, b.source)
            /\ \/ /\ binds[i].mode = b.mode \/ override
                  /\ binds' = [binds EXCEPT ![i] = b] /\ stage' = next
               \/ /\ binds[i].mode # b.mode /\ ~override
                  /\ stage' = "conflict" /\ UNCHANGED binds

\* Mutant: a bind of another mode replaces the first, override or not.
AddBindOverrides(b, override, next) ==
    /\ asks' = Append(asks, b) /\ stage' = next
    /\ \/ /\ \A i \in DOMAIN binds : binds[i].source # b.source
          /\ binds' = Append(binds, b)
       \/ \E i \in DOMAIN binds :
            /\ First(i, b.source)
            /\ binds' = [binds EXCEPT ![i] =
                 [b EXCEPT !.optional = @ /\ (binds[i].mode = b.mode => binds[i].optional)]]

\* A bind of a new source is appended. One of a source in the list is united
\* with it, replaces it, or is a MergeConflictError.
AddBind(b, override, next) ==
    /\ asks' = Append(asks, b)
    /\ \/ /\ \A i \in DOMAIN binds : binds[i].source # b.source
          /\ binds' = Append(binds, b) /\ stage' = next
       \/ \E i \in DOMAIN binds :
            /\ First(i, b.source)
            /\ \/ /\ binds[i].mode = b.mode
                  /\ binds' = [binds EXCEPT ![i].optional = @ /\ b.optional] /\ stage' = next
               \/ /\ binds[i].mode # b.mode /\ override
                  /\ binds' = [binds EXCEPT ![i] = b] /\ stage' = next
               \/ /\ binds[i].mode # b.mode /\ ~override
                  /\ stage' = "conflict" /\ UNCHANGED binds

\* The next bind of the list is expanded, then added, dropped or refused.
AddNext(override) ==
    /\ todo # <<>>
    /\ todo' = Tail(todo)
    /\ LET bind == Head(todo)
           source == Expand[bind.source]
       IN  \/ /\ source \in Paths
              /\ AddBind([bind EXCEPT !.source = source], override, stage)
           \/ /\ source = Empty /\ bind.optional
              /\ UNCHANGED <<stage, asks, binds>>
           \/ /\ source \in {Relative, Unknown} \/ (source = Empty /\ ~bind.optional)
              /\ stage' = "invalid" /\ UNCHANGED <<asks, binds>>
    /\ UNCHANGED <<request, past, env, items, network, last>>

-----------------------------------------------------------------------------
(* _merge_layers.                                                          *)

EnvConflict(l) ==
    ~request.override /\ \E k \in Keys : Unset \notin {env[k], l.env[k]} /\ env[k] # l.env[k]

\* Explicit modes are collected and the one of least rank is kept.
MostRestrictive(modes) == CHOOSE m \in modes : \A n \in modes : Rank[m] <= Rank[n]
Explicit(layers) == {layers[i].network : i \in DOMAIN layers} \ {Unset}
NetworkOf(layers) ==
    IF Explicit(layers) = {} THEN "none" ELSE MostRestrictive(Explicit(layers))

\* Mutant: the last layer that names a mode decides it.
MergeLayerLastNetwork(l) ==
    /\ stage = "layers" /\ todo = <<>> /\ Len(past) < MaxLayers
    /\ ~EnvConflict(l)
    /\ past' = Append(past, l)
    /\ env' = [k \in Keys |-> Or(l.env[k], env[k])]
    /\ items' = items \cup l.items
    /\ last' = [f \in Fields |-> Or(l.last[f], last[f])]
    /\ network' = Or(l.network, network)
    /\ todo' = l.binds
    /\ UNCHANGED <<request, stage, asks, binds>>

MergeLayer(l) ==
    /\ stage = "layers" /\ todo = <<>> /\ Len(past) < MaxLayers
    /\ ~EnvConflict(l)
    /\ past' = Append(past, l)
    /\ env' = [k \in Keys |-> Or(l.env[k], env[k])]
    /\ items' = items \cup l.items
    /\ last' = [f \in Fields |-> Or(l.last[f], last[f])]
    /\ network' = NetworkOf(past')
    /\ todo' = l.binds
    /\ UNCHANGED <<request, stage, asks, binds>>

LayerConflicts(l) ==
    /\ stage = "layers" /\ todo = <<>> /\ Len(past) < MaxLayers
    /\ EnvConflict(l)
    /\ past' = Append(past, l) /\ stage' = "conflict"
    /\ UNCHANGED <<request, todo, asks, binds, env, items, network, last>>

LayerBind == stage = "layers" /\ AddNext(request.override)

-----------------------------------------------------------------------------
(* resolve_policy, after the layers.                                       *)

ExpandField(f) == IF last[f] # Unset THEN Expand[last[f]] ELSE Default[f]

\* cwd, home and prepend_path are expanded, once, when every layer is merged.
LayersMerged ==
    /\ stage = "layers" /\ todo = <<>>
    /\ \/ /\ \A f \in PathFields : ExpandField(f) \in Paths \cup {Unset}
          /\ items \cap Unresolvable = {}
          /\ last' = [f \in Fields |-> IF f \in PathFields THEN ExpandField(f) ELSE last[f]]
          /\ stage' = "project"
       \/ /\ \/ \E f \in PathFields : ExpandField(f) \notin Paths \cup {Unset}
             \/ items \cap Unresolvable # {}
          /\ stage' = "invalid" /\ UNCHANGED last
    /\ UNCHANGED <<request, past, todo, asks, binds, env, items, network>>

BindProject ==
    /\ stage = "project"
    /\ \/ /\ request.bind_project
          /\ AddBind([source |-> Project, mode |-> "rw", optional |-> FALSE], TRUE, "inline")
       \/ /\ ~request.bind_project
          /\ stage' = "inline" /\ UNCHANGED <<asks, binds>>
    /\ UNCHANGED <<request, past, todo, env, items, network, last>>

EnvRaw(k) == Or(request.env[k], env[k])
EnvExpanded(k) ==
    IF EnvRaw(k) \in Literal \cup {Unset} THEN EnvRaw(k) ELSE Expand[EnvRaw(k)]

Refused ==
    request.network \notin NetworkModes \cup {Unset} \/ request.items \cap Malformed # {}

\* The request's environment and lists, the expansion of every
\* value, and the checks of the network mode and of the ports.
Inline ==
    /\ stage = "inline"
    /\ \/ /\ ~Refused /\ \A k \in Keys : EnvExpanded(k) # Unknown
          /\ env' = [k \in Keys |-> EnvExpanded(k)]
          /\ items' = items \cup request.items
          /\ network' = Or(request.network, network)
          /\ todo' = request.binds
          /\ stage' = "binds"
       \/ /\ Refused \/ \E k \in Keys : EnvExpanded(k) = Unknown
          /\ stage' = "invalid" /\ UNCHANGED <<env, items, network, todo>>
    /\ UNCHANGED <<request, past, asks, binds, last>>

InlineBind == stage = "binds" /\ AddNext(TRUE)

InlineBound ==
    /\ stage = "binds" /\ todo = <<>>
    /\ stage' = "defaults"
    /\ UNCHANGED <<request, past, todo, asks, binds, env, items, network, last>>

DefaultOf(k) ==
    IF k \in UserKeys THEN User ELSE IF k \in HomeKeys THEN last["home"] ELSE Unset

\* HOME, USER, LOGNAME and the XDG defaults; what the request passes through is left out.
Defaults ==
    /\ stage = "defaults"
    /\ env' = [k \in Keys |-> IF k \in request.passes THEN Unset ELSE Or(env[k], DefaultOf(k))]
    /\ stage' = "resolved"
    /\ UNCHANGED <<request, past, todo, asks, binds, items, network, last>>

-----------------------------------------------------------------------------
Rest == BindProject \/ Inline \/ InlineBind \/ InlineBound \/ Defaults

Next ==
    \/ \E l \in Layers : MergeLayer(l) \/ LayerConflicts(l)
    \/ LayerBind \/ LayersMerged \/ Rest

Spec == Init /\ [][Next]_vars

-----------------------------------------------------------------------------
(* Properties.                                                             *)

TypeOK ==
    /\ request \in RequestSet
    /\ stage \in Stages
    /\ past \in Seq(LayerSet)
    /\ todo \in Seq(RawBinds)
    /\ asks \in Seq(Binds)
    /\ binds \in Seq(Binds)
    /\ env \in [Keys -> EnvValues]
    /\ items \subseteq Items
    /\ network \in NetworkModes
    /\ last \in [Fields -> Raw \cup Paths \cup {Unset}]

\* The list of binds is what a reader of all the requests would write down,
\* whichever way _add_bind folded them: one bind for each source asked for, of
\* the mode of the last request for it, and optional only when every request
\* since that mode was last changed is.
BindsFollowRequests ==
    stage # "conflict" =>
      /\ {binds[i].source : i \in DOMAIN binds} = {asks[i].source : i \in DOMAIN asks}
      /\ \A i, j \in DOMAIN binds : i # j => binds[i].source # binds[j].source
      /\ \A n \in DOMAIN binds :
           LET b == binds[n]
               Of == {i \in DOMAIN asks : asks[i].source = b.source}
               Run == {i \in Of : \A j \in Of : j >= i => asks[j].mode = b.mode}
           IN  Run # {} /\ (b.optional <=> \A i \in Run : asks[i].optional)

LayerBinds ==
    UNION {{[b EXCEPT !.source = Expand[b.source]] :
              b \in {past[i].binds[n] : n \in DOMAIN past[i].binds}} : i \in DOMAIN past}

LayersAgree ==
    /\ \A a, b \in LayerBinds : a.source = b.source /\ a.source \in Paths => a.mode = b.mode
    /\ \A i, j \in DOMAIN past, k \in Keys :
         Unset \notin {past[i].env[k], past[j].env[k]} => past[i].env[k] = past[j].env[k]

\* A conflict between profiles is never settled silently, nor invented: without
\* override the merge gets past the layers only if they agree on every bind and
\* every variable, and it stops at a conflict only if they do not.
ConflictsReported ==
    /\ stage \in {"project", "inline", "binds", "defaults", "resolved"} /\ ~request.override
         => LayersAgree
    /\ stage = "conflict" => ~request.override /\ ~LayersAgree

\* "network takes the most restrictive" (policy.py:5): in whatever order the
\* profiles come, none of them widens what another one restricted. Only the
\* request's own field does.
NetworkRestricted ==
    request.network = Unset =>
      \A i \in DOMAIN past : past[i].network # Unset /\ stage # "conflict"
        => Rank[network] <= Rank[past[i].network]
=============================================================================
