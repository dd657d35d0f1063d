---- MODULE MCInvocation ----
(* The library's requests and layers: a path with two spellings next to the *)
(* project and the home; a variable that defaults to the home, one that     *)
(* defaults to the user, one the proxy sets, TMPDIR, and one of no kind.    *)
(* Command lines: up to three tokens left of "--", with a command or not.   *)
EXTENDS Invocation

MCPaths == {"/home/u", "/home/u/.npm", "/project"}
MCRaw == {"~/.npm", "{home}/.npm", "{project}", "{home}", "{ssh_auth_sock}", "x", "{y}", "{scratch}"}
MCExpand ==
    [r \in MCRaw |->
       CASE r \in {"~/.npm", "{home}/.npm"} -> "/home/u/.npm"
         [] r = "{project}" -> "/project"
         [] r = "{home}" -> "/home/u"
         [] r = "{ssh_auth_sock}" -> Empty
         [] r = "x" -> Relative
         [] OTHER -> Unknown]
MCWords == NetworkModes \cup {"explain", "audit", "profile", "list"}
MCLiteral == {"x", "~/.npm", "{scratch}"}
MCKeys == {"FOO", "HOME", "USER", "HTTP_PROXY", "TMPDIR"}
MCHostEnv == [k \in MCKeys |-> IF k = "USER" THEN Unset ELSE "hosts"]
MCDefault == [f \in PathFields |-> IF f = "cwd" THEN "/project" ELSE Unset]

MCItems == {"ptrace", "proc", "a.com", "b.com:x", "{y}/bin", "FOO", "H*"}
MCCovers == [i \in MCItems |-> CASE i = "FOO" -> {"FOO"} [] i = "H*" -> {"HOME", "HTTP_PROXY"} [] OTHER -> {}]
MCWithin == [special |-> {"proc"}, proxy |-> {"a.com"}]

Bind(s, m, o) == [source |-> s, mode |-> m, optional |-> o]
NoEnv == [k \in MCKeys |-> Unset]
NoLast == [f \in Fields |-> Unset]
Layer(b, e, n, l, i) == [binds |-> b, env |-> e, network |-> n, last |-> l, items |-> i]
Plain(b) == Layer(b, NoEnv, Unset, NoLast, {})

MCLayers ==
    {Plain(<<Bind(s, m, o)>>) : s \in {"~/.npm", "{home}/.npm"}, m \in BindModes, o \in BOOLEAN}
      \cup {Plain(<<Bind("{project}", "ro", FALSE), Bind("~/.npm", "ro", TRUE)>>)}
      \cup {Plain(<<Bind(s, "ro", o)>>) : s \in {"{ssh_auth_sock}"}, o \in BOOLEAN}
      \cup {Plain(<<Bind("{y}", "ro", TRUE)>>), Layer(<<>>, NoEnv, Unset, NoLast, {"{y}/bin"})}
      \cup {Layer(<<>>, [NoEnv EXCEPT !["FOO"] = v], n, NoLast, {"ptrace", "H*"}) :
              v \in {"x", "{home}"}, n \in {"none", "proxy"}}
      \cup {Layer(<<>>, [NoEnv EXCEPT !["HOME"] = v, !["HTTP_PROXY"] = "x"], "host",
                  [NoLast EXCEPT !["home"] = "{home}", !["clear_env"] = "x"], {}) :
              v \in {Unset, "{scratch}"}}
      \cup {Layer(<<>>, NoEnv, "proxy", [NoLast EXCEPT !["home"] = h], {}) : h \in {"~/.npm", "x"}}

Request(b, e, n, p, o, bp) ==
    [Fresh EXCEPT !.binds = b, !.env = e, !.network = n, !.items = p, !.passes = UNION {MCCovers[i] : i \in p},
                  !.override = o, !.bind_project = bp]
MCRequests ==
    {Request(<<>>, NoEnv, Unset, {}, o, TRUE) : o \in BOOLEAN}
      \cup {Request(<<Bind("~/.npm", "rw", TRUE)>>, NoEnv, Unset, {}, FALSE, FALSE)}
      \cup {Request(<<>>, [NoEnv EXCEPT !["FOO"] = v], "host", {}, TRUE, FALSE) : v \in {"~/.npm", "{y}"}}
      \cup {Request(<<>>, [NoEnv EXCEPT !["FOO"] = "x"], Unset, {"FOO", "H*"}, TRUE, FALSE)}
      \cup {Request(<<>>, NoEnv, Unset, {"b.com:x"}, FALSE, FALSE)}

\* The base sets the home; the others restrict, or say something unheard of.
Doc(l, loose, bad) == [layer |-> l, loose |-> loose, bad |-> bad]
Base == Doc(Layer(<<>>, NoEnv, Unset, [NoLast EXCEPT !["home"] = "{home}"], {"proc", "FOO"}), {}, {})
Strict == Layer(<<Bind("~/.npm", "ro", FALSE)>>, NoEnv, "none", NoLast, {"ptrace", "a.com"})
MCDocs == {Doc(Strict, {}, {}), Doc(Strict, {"network", "proxy"}, {}),
           Doc(Strict, {"syscalls"}, {}), Doc(Strict, {}, {"binds"})}
MCBuiltin == [n \in {"base", "base-macos", "net", "gone"} |->
    CASE n \in {"base", "base-macos"} -> Base
      [] n = "net" -> Doc(Layer(<<>>, NoEnv, "proxy", NoLast, {}), {}, {})
      [] OTHER -> Unset]

Token(i, o) == [is |-> i, of |-> o]
MCTokens ==
    {Token("profile", n) : n \in {"net", "gone"}} \cup {Token("audit", Unset), Token("unknown", Unset)}
      \cup {Token("option", o) : o \in {"project", "network"}} \cup {Token("flag", f) : f \in {"no_base", "override"}}
      \cup {Token("net", n) : n \in {Unset, {"a.com"}, {"b.com:x"}}} \cup {Token("env", {"H*"})}
      \cup {Token("bind", <<Bind("{project}", "ro", FALSE)>>)}
      \cup {Token("word", w) : w \in {"host", "explain", "audit"}}
Listed == {<<Token("word", "profile")>> \o l : l \in {<<>>, <<Token("word", "list")>>}} \cup {<<Token("help", Unset)>>}
Sep == Token("sep", Unset)
Version == Token("version", Unset)
MCArgvs ==
    {l \o r : l \in {s \in SeqOf(MCTokens, 3) : Len(SelectSeq(s, LAMBDA t : t.is = "profile")) <= 2} \cup Listed \cup {<<Version>>},
              r \in {<<>>, <<Sep, Version, Sep, Token("net", Unset)>>}}
====
