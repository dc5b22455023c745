----------------------------- MODULE MCAdmission -----------------------------
(***************************************************************************)
(* Inputs for Admission: layers of the configuration and requests.         *)
(***************************************************************************)
EXTENDS Policy

(* A raw layer: for each field it names, a value or something invalid. *)
NoLayer == <<>>
Value(v) == [ok |-> TRUE, v |-> v]
Wrong == [ok |-> FALSE]
Field(k, v) == (k :> Value(v))
(* Files with one field each, and the fields that depend on one another. *)
MCGlobal == {NoLayer, Field("paths", {}), Field("paths", {"/w", "/w/link"}),
    Field("timeout", 0), Field("output", 0), Field("maxPage", 1),
    Field("caps", {"a", "b"}), Field("isolation", "none"),
    Field("profile", "build") @@ Field("commands", {"node", "yarn", "gh", "npx"}),
    Field("patterns", {}), Field("restrictions", "ls" :> Value({"l"})),
    Field("secrets", "redact" :> Value(TRUE) @@ "env" :> Wrong),
    Field("policies", "ls" :> Value([Base EXCEPT !.flags = ("w" :> "value")])),
    "commands" :> Wrong}
MCProject == {NoLayer, Field("paths", {}), Field("paths", {"/other", "/w/sub"}),
    Field("paths", {"/w/link"}), Field("timeout", 3), Field("timeout", 1),
    Field("output", 0) @@ Field("patterns", {}), Field("commands", {"ls", "rm"}),
    Field("isolation", "none") @@ Field("time", 3) @@ Field("memory", 1),
    Field("caps", {"a", "c"}), Field("profile", "build"), Field("secrets", "env" :> Value({})),
    Field("policies", "id" :> Value(Base)) @@ Field("page", 3),
    Field("restrictions", "ls" :> Value({"w"}) @@ "node" :> Value({})),
    "timeout" :> Wrong}
MCEnv == {NoLayer, Field("paths", {"/w", "/other"}), Field("commands", {}) @@ Field("page", 3),
    Field("timeout", 0), "strict" :> Wrong}

Flag(f) == Bundle(<<f>>, "none")
Plain == {<<>>, <<Word("plus")>>, <<Word("link")>>, <<Word("out")>>, <<Word("kv")>>, <<Word("word")>>,
    <<Number, Word("plain")>>, <<Long("--version", "none")>>,
    <<Long("--no-pager", "none"), Word("log"), Word("in")>>,
    <<Word("branch"), Long("--format", "none"), Word("plain")>>,
    <<Word("list"), Long("--format", "in")>>, <<Word("run"), Long("--depth", "none"), Word("num")>>,
    <<Word("get"), Flag("w"), Flag("o"), Word("plain")>>, <<Word("get"), Flag("o"), Word("num")>>,
    <<Word("pr"), Word("list"), Bundle(<<"L">>, "link")>>, <<Word("pr"), Flag("w")>>,
    <<Flag("w"), Word("at"), Word("url")>>, <<Flag("w"), Word("pct"), Word("url")>>,
    <<Flag("n"), Word("num")>>, <<Flag("n"), Word("plain")>>, <<Word("plain"), Bundle(<<"f">>, "out")>>}

(* A letter that is an option of its own and one that takes a value. *)
Bundles(f, v) ==
    {<<EndOfFlags, Flag(f)>>, <<Flag(f), Word("word")>>, <<Flag(v), Flag(f)>>,
     <<Bundle(<<v>>, "out")>>, <<Bundle(<<v>>, "op")>>, <<Bundle(<<v>>, "num"), Word("url")>>,
     <<Bundle(<<f, v, f>>, "none")>>, <<Bundle(<<v, f>>, "out")>>, <<Flag(v), Word("kv")>>,
     <<EndOfFlags, Bundle(<<v>>, "out")>>}
MCRequests ==
    ({"ls", "ps", "grep", "uname", "git", "gh", "kubectl", "curl", "id", "date", "node",
      "yarn", "npx", "journalctl"} \X Plain)
      \cup ({"ps", "grep"} \X (Bundles("e", "o") \cup Bundles("o", "e")))
      \cup ({"ls", "kubectl", "npx", "id"} \X Bundles("l", "w"))
      \cup ({"curl", "gh", "node"} \X Bundles("L", "w"))
=============================================================================
