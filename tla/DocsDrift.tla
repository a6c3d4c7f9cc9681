----------------------------- MODULE DocsDrift -----------------------------
(***************************************************************************)
(* review/docs_drift.rs: the calls in the Rust examples of the documents,  *)
(* against the public functions that the evidence shows now and showed at  *)
(* the base.  A call is drift when its arguments disagree with the one     *)
(* interface it can mean, or when that interface is gone and nothing left  *)
(* to see could be its replacement; else it agrees or is unknown.          *)
(*                                                                         *)
(* A line of an example calls at most one function, CallOf[line]; a line   *)
(* of a source declares at most one, DeclOf[line].  NamedIn has the names  *)
(* a line mentions outside comments and strings.                           *)
(***************************************************************************)
EXTENDS Evidence

CONSTANTS Markdown,      \* md, mdx, markdown
          CargoFiles,    \* <<name, ext>> of Cargo.toml and Cargo.lock
          Fence,         \* line that opens an example -> "rust" or "other"
          Closing,       \* lines that close one; outside an example they open one
          CallOf,        \* line -> [name, qualified, paths, arity]: paths the files its
                         \* crate path may mean, none of a bare name or of another path
          LinkOf,        \* line -> the path it links to, or quotes
          Wild,          \* use ...::*
          Local,         \* line of a use, let or fn -> the names it binds
          DeclOf,        \* line -> [name, arity]
          Unread,        \* multiline and generic signatures
          CfgLines, CrateCfg,   \* #[cfg] above a declaration, #![cfg]
          ReExports,     \* pub use *, include!, item macros
          Unclear        \* an arity that cannot be counted

IsDocument(p) == p.ext \in Markdown

\* The last change of a path counts; a rename takes its old path away.  The
\* changes are those of one scope, by path; those of several follow by scope.
Override(current, c) ==
    LET kept == [p \in DOMAIN current \ {c.path, c.old} |-> current[p]]
    IN IF c.content = Nothing THEN kept ELSE (c.path :> c.content) @@ kept
ChangesInOrder(changes) ==
    LET paths == SortPaths({c.path : c \in changes})
    IN [i \in DOMAIN paths |-> CHOOSE c \in changes : c.path = paths[i]]
Inventory(files) == [p \in {f[1] : f \in files} |-> (CHOOSE f \in files : f[1] = p)[2]]
Current(changes, files) == FoldLeft(Override, Inventory(files), ChangesInOrder(changes))

---------------------------------------------------------------------------
\* extract_interfaces and conditional_attributes
Conditional(text, i) ==
    \/ \E j \in DOMAIN text : text[j] \in CrateCfg /\ Depth(text, j - 1) = 0
    \/ \E j \in 1..(i - 1) :
         /\ text[j] \in CfgLines /\ Depth(text, j - 1) = 0
         /\ \A k \in (j + 1)..(i - 1) :
              Depth(text, k - 1) = 0 => text[k] \in Attached["rust"] \cup BlankLines \cup CfgLines

TopLevel(text, lines) == {i \in DOMAIN text : text[i] \in lines /\ Depth(text, i - 1) = 0}

Interfaces(p, text) ==
    {[name |-> DeclOf[text[i]].name, arity |-> DeclOf[text[i]].arity, path |-> p, line |-> i] :
        i \in {j \in TopLevel(text, DOMAIN DeclOf) : ~Conditional(text, j)}}
\* The lines no interface was read from.
Missed(text) ==
    {i \in TopLevel(text, DOMAIN DeclOf) : Conditional(text, i)} \cup TopLevel(text, Unread)

\* As Sources' names, of the public functions alone.
NamesDeclared(text) == {a.name : a \in Interfaces(Nothing, text)}
Names(text) == UNION {NamedIn[text[i]] : i \in {j \in DOMAIN text : text[j] \in DOMAIN NamedIn}}

---------------------------------------------------------------------------
\* examples: Opened(text)[i] is the line of the fence that is open after i.
Opened(text) ==
    LET open[i \in 0..Len(text)] ==
          IF i = 0 THEN 0
          ELSE IF open[i - 1] # 0 THEN (IF text[i] \in Closing THEN 0 ELSE open[i - 1])
          ELSE IF text[i] \in DOMAIN Fence THEN i ELSE 0
    IN open

Fences(text) == {i \in DOMAIN text : Opened(text)[i] = i}
Examples(text) ==
    {i \in Fences(text) : Fence[text[i]] = "rust" /\ \E j \in i..Len(text) : Opened(text)[j] = 0}
BodyOf(text, from) == {i \in (from + 1)..Len(text) : Opened(text)[i] = from}
CallsIn(text, from) == {i \in BodyOf(text, from) : text[i] \in DOMAIN CallOf}

DocUnknowns(p, text) ==
    {<<p, why>> : why \in {w \in {"language", "unterminated", "no example"} :
        CASE w = "language" -> \E i \in Fences(text) : Fence[text[i]] # "rust"
          [] w = "unterminated" -> Opened(text)[Len(text)] # 0
          [] w = "no example" -> Examples(text) = {}}}

Links(text) == {LinkOf[text[i]] : i \in {j \in DOMAIN text : text[j] \in DOMAIN LinkOf}}

\* associated_source
Associated(path, call, links) == path \in (IF call.qualified THEN call.paths ELSE links)

\* A name that the example itself may bind.
Shadowed(text, from, call) ==
    /\ ~call.qualified
    /\ \E i \in BodyOf(text, from) :
         text[i] \in Wild \/ (text[i] \in DOMAIN Local /\ call.name \in Local[text[i]])

---------------------------------------------------------------------------
\* The documents that are compared: all, once code changed.
Documents(current, changes) ==
    {p \in DOMAIN current :
        /\ IsDocument(p)
        /\ \E c \in changes : ~IsDocument(c.path) \/ c.path = p}

Visible(current) ==
    UNION {Interfaces(p, current[p]) : p \in {q \in DOMAIN current : IsRust(q)}}
Previous(changes) == UNION {Interfaces(c.old, c.base) : c \in {d \in changes : IsRust(d.path)}}

\* As Elsewhere, of declarations only.
ElsewhereDeclared(current, name) ==
    \E p \in DOMAIN current :
        IsRust(p) /\ (name \in NamesDeclared(current[p]) \/ ToSet(current[p]) \cap ReExports # {})
\* Some source left to see mentions the name, or may export it unseen.
Elsewhere(current, name) ==
    \E p \in DOMAIN current :
        IsRust(p) /\ (name \in Names(current[p]) \/ ToSet(current[p]) \cap ReExports # {})

\* What is said of one call: the answer, and the interface it rests on.
Judge(current, changes, d, from, i) ==
    LET call == CallOf[current[d][i]]
        links == Links(current[d])
        now == {a \in Visible(current) : a.name = call.name /\ Associated(a.path, call, links)}
        then == {a \in Previous(changes) : a.name = call.name /\ Associated(a.path, call, links)}
        api == CHOOSE a \in now \cup then : TRUE
        Answer(status, source) ==
            [doc |-> d, line |-> i, symbol |-> call.name, arity |-> call.arity,
             status |-> status, source |-> source]
    IN CASE Shadowed(current[d], from, call) -> Answer("unknown", Nothing)
         [] ~Shadowed(current[d], from, call) /\ Cardinality(now) = 1 ->
              LET only == CHOOSE a \in now : TRUE IN
              IF Unclear \in {only.arity, call.arity} THEN Answer("unknown", only)
              ELSE Answer(IF only.arity = call.arity THEN "consistent" ELSE "drift", only)
         [] ~Shadowed(current[d], from, call) /\ now = {} /\ Cardinality(then) = 1 ->
              IF Elsewhere(current, call.name) THEN Answer("unknown", api)
              ELSE Answer("drift", api)
         [] OTHER -> Answer("unknown", Nothing)

Checks(current, changes) ==
    UNION {UNION {{Judge(current, changes, d, from, i) : i \in CallsIn(current[d], from)} :
                    from \in Examples(current[d])} :
             d \in Documents(current, changes)}

\* The sources whose unread signatures matter to some document.
Relevant(current, changes) ==
    UNION {Links(current[d])
             \cup UNION {CallOf[current[d][i]].paths :
                     i \in UNION {CallsIn(current[d], from) : from \in Examples(current[d])}} :
             d \in Documents(current, changes)}

DocsSummary(changes, files) ==
    LET current == Current(changes, files)
        docs == Documents(current, changes)
        relevant == Relevant(current, changes)
        checks == Checks(current, changes)
        rust == {c \in changes : IsRust(c.path)}
    IN [checks |-> checks,
        unknowns |->
            UNION {DocUnknowns(d, current[d]) : d \in docs}
            \cup {<<p, "unread">> : p \in {q \in DOMAIN current \cap relevant :
                                              IsRust(q) /\ Missed(current[q]) # {}}}
            \cup {<<c.old, "unread before">> :
                    c \in {r \in rust : r.old \in relevant /\ Missed(r.base) # {}}}
            \cup {<<c.path, "Rust only">> :
                    c \in {d \in changes : ~IsRust(d.path) /\ ~IsDocument(d.path)
                                             /\ <<d.path.name, d.path.ext>> \notin CargoFiles}}
            \cup {<<c.doc, "call", c.line>> : c \in {d \in checks : d.status = "unknown"}}
            \cup (IF docs = {} THEN {<<Nothing, "no documents">>} ELSE {})
            \cup (IF docs # {} /\ checks = {} THEN {<<Nothing, "no calls">>} ELSE {})]

DocsFindings(summary) ==
    {[file |-> c.doc, line |-> c.line, mechanism |-> "docsInterfaceDrift",
      evidence |-> <<c.symbol, c.line, c.source>>] :
        c \in {d \in summary.checks : d.status = "drift"}}
=============================================================================
