------------------------------- MODULE Workshop -------------------------------
(***************************************************************************)
(* The author's side of parism: the directory ~/.parism and the commands    *)
(* that write and read it, each a process of its own. parism add copies a   *)
(* pack and registers it (cli/add.ts), capture saves the sanitized output   *)
(* of a command as a fixture (cli/capture.ts), a person writes what it      *)
(* should be read as, test replays everything (cli.ts, fixtures/run.ts),    *)
(* eval judges the host (cli/eval.ts), and a server that starts loads the   *)
(* registered packs (cli/auto-loader.ts). Processes may be killed, and two  *)
(* adds may run at once.                                                    *)
(***************************************************************************)
EXTENDS Replay, Evaluation, Sanitize

CONSTANTS Adders,       \* the add commands that may be run
          Source,       \* [adder -> the pack it is given: name, valid, files, fixtures]
          Commands,     \* the commands that are captured
          Printed,      \* what they print: sequences of units
          Args,         \* the arguments they are given
          Rules,        \* the rules of the sanitizer, in order
          Expectations, \* what a person may write into a fixture
          Readers,      \* versions of the parsers: [text -> what it is read as]
          Suites,       \* the cases eval may be run on
          MaxClock,     \* bound: seconds that pass
          MaxFiles      \* bound: files in the fixtures directory

\* The suites of parism eval (SCENARIOS, cli/eval.ts:258): an expectation names an
\* outcome of its level, and a case that reads a stored result expects to
\* succeed, whatever the host.
ASSUME SuitesAssumption ==
  \A suite \in Suites :
    /\ IsFiniteSet(DOMAIN suite)
    /\ \A i \in DOMAIN suite :
         LET c == suite[i] IN
           /\ \A l \in Levels \cap DOMAIN c.expect : c.expect[l] \in Wanted(l)
           /\ "stored" \in DOMAIN c =>
                /\ c.stored \in StoredOutcomes
                /\ "task" \in DOMAIN c.expect /\ c.expect.task = "succeed"
                /\ ~c.expect.environmentDependent

\* Whoever wrote an expectation, and whatever a parser returns, it is JSON: the
\* evidence is what manifest.ts:66-73 and the registry let through.
ASSUME ReadingsAssumption ==
  /\ MaxDepth \in Nat /\ MaxDepth >= 2
  /\ \A e \in Expectations :
       /\ "parsed" \in DOMAIN e => IsJson(e.parsed)
       /\ "evidence" \in DOMAIN e => AreEvidence(e.evidence) /\ e.exhaustive \in BOOLEAN
  /\ \A version \in Readers, text \in Printed :
       LET read == version[SanitizeText(text, Rules).text]
       IN  IsJson(read.parsed) /\ AreEvidence(read.evidence)
  /\ \A p \in Adders : IsFiniteSet(DOMAIN Source[p].fixtures)

\* A pack has at least the file it is loaded from (loader.ts:10).
ASSUME FilesAssumption == \A p \in Adders : Source[p].files # {}

\* What is printed, the rules and the arguments are sequences, and an argument
\* has a name, a value and whether the value is secret.
ASSUME TextsAssumption ==
  /\ \A text \in Printed : text \in Seq(ToSet(text))
  /\ Rules \in Seq(ToSet(Rules))
  /\ \A args \in Args : /\ args \in Seq(ToSet(args))
                        /\ \A i \in DOMAIN args : {"name", "value", "secret"} \subseteq DOMAIN args[i]

VARIABLES adder,        \* what each add has yet to do, and what it read
          parsers,      \* ~/.parism/parsers: the directories of the packs, by name
          registry,     \* ~/.parism/registry.json
          fixtures,     \* ~/.parism/fixtures, by file name
          clock,        \* the second it is
          reader,       \* the version of the parsers in use
          answer        \* what the last test, eval or server start found

disk == <<adder, parsers, registry, fixtures>>
vars == <<adder, parsers, registry, fixtures, clock, reader, answer>>

Absent == [state |-> "absent"]
Torn   == [state |-> "torn"]
Nothing == [n \in {} |-> n]
With(files, name, content) == [n \in DOMAIN files \cup {name} |->
                                 IF n = name THEN content ELSE files[n]]
Entries(names) == [state |-> "ok", names |-> names]

Name(p) == Source[p].name
Names == {Name(p) : p \in Adders}
Files(p) == Source[p].files
ReadOf(file) == IF file.state = "ok" THEN file.names ELSE {}

\* An add: the step it is at, what it read of the registry, the files it has yet
\* to copy and the one it is writing; beside is history: the adds whose copies
\* into the same directory ran while its own did.
NewAdd == [at |-> "idle", seen |-> {}, todo |-> {}, open |-> {}, beside |-> {}]

\* The directory of a pack: last is history, the add that began to copy into it
\* last. Of each file it is known whose bytes may be in it, and who has not
\* written it to its end.
FilesIn(n) == IF n \in DOMAIN parsers THEN parsers[n].files ELSE Nothing

Init == /\ adder = [p \in Adders |-> NewAdd]
        /\ parsers = Nothing /\ registry = Absent /\ fixtures = Nothing
        /\ clock = 0 /\ reader \in Readers
        /\ answer = [kind |-> "none"]

----------------------------------------------------------------------------
(* parism add.                                                             *)

Goes(p, step) == adder' = [adder EXCEPT ![p].at = step]

\* readPackName, packInstallDir: a pack that does not load, or whose name is
\* no file name, is refused before anything is written.
ReadPackName(p) ==
  /\ adder[p].at = "idle"
  /\ Goes(p, IF Source[p].valid THEN "copy" ELSE "failed")
  /\ UNCHANGED <<parsers, registry, fixtures, clock, reader, answer>>

\* The other adds that copy into the directory, and those that write that file.
Rivals(p) == {q \in Adders \ {p} : Name(q) = Name(p) /\ adder[q].at = "copying"}
Writers(p, f) == {q \in Rivals(p) : f \in adder[q].open}

\* ensureParismDirs, mkdirSync, and cpSync begins: what is there stays there.
StartCopy(p) ==
  /\ adder[p].at = "copy"
  /\ parsers' = With(parsers, Name(p), [last |-> p, files |-> FilesIn(Name(p))])
  /\ adder' = [q \in Adders |->
                 CASE q = p -> [adder[q] EXCEPT !.at = "copying", !.todo = Files(p),
                                                !.beside = Rivals(p)]
                   [] q \in Rivals(p) -> [adder[q] EXCEPT !.beside = @ \cup {p}]
                   [] OTHER -> adder[q]]
  /\ UNCHANGED <<registry, fixtures, clock, reader, answer>>

\* cpSync takes one file after another, in any order, over one of that name. What
\* two adds write at once may hold the bytes of both.
BeginFile(p) ==
  /\ adder[p].at = "copying" /\ adder[p].open = {}
  /\ \E f \in adder[p].todo :
       LET files  == FilesIn(Name(p))
           others == Writers(p, f)
           begun  == [of   |-> {p} \cup (IF others = {} THEN {} ELSE files[f].of),
                      torn |-> {p} \cup others]
       IN  /\ parsers' = [parsers EXCEPT ![Name(p)].files = With(files, f, begun)]
           /\ adder' = [adder EXCEPT ![p].todo = @ \ {f}, ![p].open = {f}]
  /\ UNCHANGED <<registry, fixtures, clock, reader, answer>>
EndFile(p) ==
  /\ adder[p].at = "copying"
  /\ \E f \in adder[p].open :
       parsers' = [parsers EXCEPT ![Name(p)].files[f].torn = @ \ {p}]
  /\ adder' = [adder EXCEPT ![p].open = {}]
  /\ UNCHANGED <<registry, fixtures, clock, reader, answer>>

CopyNotAwaited(p) == \* mutant: registers while the copy still runs
  /\ adder[p].at = "copying"
  /\ Goes(p, "read")
  /\ UNCHANGED <<parsers, registry, fixtures, clock, reader, answer>>
FinishCopy(p) ==
  /\ adder[p].at = "copying" /\ adder[p].todo = {} /\ adder[p].open = {}
  /\ Goes(p, "read")
  /\ UNCHANGED <<parsers, registry, fixtures, clock, reader, answer>>

\* The entries are read; a file that is no JSON ends the command.
ReadRegistry(p) ==
  /\ adder[p].at = "read"
  /\ adder' = [adder EXCEPT ![p].at   = IF registry = Torn THEN "failed" ELSE "write",
                            ![p].seen = ReadOf(registry)]
  /\ UNCHANGED <<parsers, registry, fixtures, clock, reader, answer>>

\* writeFileSync: the file is emptied, then written.
EmptyRegistry(p) ==
  /\ adder[p].at = "write"
  /\ registry' = Torn
  /\ Goes(p, "writing")
  /\ UNCHANGED <<parsers, fixtures, clock, reader, answer>>
WriteRegistry(p) ==
  /\ adder[p].at = "writing"
  /\ registry' = Entries(adder[p].seen \cup {Name(p)})
  /\ Goes(p, "done")
  /\ UNCHANGED <<parsers, fixtures, clock, reader, answer>>

\* The command is interrupted between two steps. A copy that throws, for want of
\* space or because a rival took the file away, ends as one that was killed.
Kill(p) ==
  /\ adder[p].at \notin {"idle", "done", "failed", "killed", "broken"}
  /\ Goes(p, IF adder[p].at = "copying" THEN "broken" ELSE "killed")
  /\ UNCHANGED <<parsers, registry, fixtures, clock, reader, answer>>

----------------------------------------------------------------------------
(* Fixtures.                                                               *)

Tick == /\ clock < MaxClock
        /\ clock' = clock + 1
        /\ UNCHANGED <<adder, parsers, registry, fixtures, reader, answer>>

\* captureCommand: the file is named for the command and the second, and one
\* of that name is written over. What is printed on stderr is kept in the same way.
Captured(text, args) ==
  [kind |-> "manifest", printed |-> text, given |-> args,
   stdout |-> SanitizeText(text, Rules).text, args |-> SanitizeArgs(args).args,
   redactions |-> SanitizeText(text, Rules).redactions \o SanitizeArgs(args).redactions,
   expected |-> << >>]
Put(file, content) == fixtures' = With(fixtures, file, content)
Capture(cmd, text, args) ==
  /\ Cardinality(DOMAIN fixtures \cup {<<cmd, clock>>}) <= MaxFiles
  /\ Put(<<cmd, clock>>, Captured(text, args))
  /\ UNCHANGED <<adder, parsers, registry, clock, reader, answer>>

\* A command that could not be started, or printed too much: its exit code is the
\* name of an error, and the manifest is not a valid one.
CaptureFailed(cmd) ==
  /\ Cardinality(DOMAIN fixtures \cup {<<cmd, clock>>}) <= MaxFiles
  /\ Put(<<cmd, clock>>, [kind |-> "invalid"])
  /\ UNCHANGED <<adder, parsers, registry, clock, reader, answer>>

\* A person writes the expected part, with a name when it was reviewed; or
\* breaks the file, or leaves one of an older form there.
WriteExpected(file, expected) ==
  /\ fixtures[file].kind = "manifest"
  /\ fixtures' = [fixtures EXCEPT ![file].expected = expected]
  /\ UNCHANGED <<adder, parsers, registry, clock, reader, answer>>
Spoil(file) ==
  /\ fixtures[file].kind = "manifest"
  /\ \E kind \in {"no_json", "no_manifest", "invalid"} :
       fixtures' = [fixtures EXCEPT ![file] = [kind |-> kind]]
  /\ UNCHANGED <<adder, parsers, registry, clock, reader, answer>>

\* Another version of the parsers is installed.
Upgrade(version) ==
  /\ reader' = version /\ version # reader
  /\ UNCHANGED <<adder, parsers, registry, fixtures, clock, answer>>

----------------------------------------------------------------------------
(* What reads the directory.                                               *)

\* The directory is the pack of that add, file by file, and nothing else.
Whole(n, p) ==
  /\ DOMAIN parsers[n].files = Files(p)
  /\ \A f \in Files(p) : parsers[n].files[f].of = {p} /\ parsers[n].files[f].torn = {}

\* What the directories load as: a whole one is its pack; one that is torn or
\* mixed, or has files left of an earlier pack, may be any pack of that name or
\* none.
Loadings ==
  {as \in UNION {[S -> Adders] : S \in SUBSET DOMAIN parsers} :
     /\ \A n \in DOMAIN as : Name(as[n]) = n
     /\ \A n \in DOMAIN parsers, p \in Adders : Whole(n, p) => n \in DOMAIN as /\ as[n] = p}

\* loadExternalParsers, at the start of a server: what fails to load is
\* skipped.
StartServer(as) ==
  /\ answer' = [kind |-> "start", registered |-> ReadOf(registry),
                loaded |-> ReadOf(registry) \cap DOMAIN as]
  /\ UNCHANGED <<disk, clock, reader>>

\* parism test. Capture and the copy of an add make the fixtures directory;
\* without one the command says so and fails.
TestPacks(as) ==
  [n \in ReadOf(registry) |-> IF n \in DOMAIN as THEN ReplayPack(Source[as[n]])
                              ELSE NotReplayable]
Test(as) ==
  /\ DOMAIN fixtures # {} \/ DOMAIN parsers # {}
  /\ LET report == ReplayDirectory(fixtures, reader)
     IN  answer' = [kind |-> "test", files |-> fixtures, reader |-> reader,
                    report |-> report, packs |-> TestPacks(as),
                    exit |-> TestExit(report, TestPacks(as))]
  /\ UNCHANGED <<disk, clock, reader>>

Evaluate(suite) ==
  /\ \E results \in {RunEvalSuite(suite)} :
       answer' = [kind |-> "eval", results |-> results,
                  levels |-> [l \in Levels |-> StatsFor(results, l)],
                  exit |-> EvalExit(results)]
  /\ UNCHANGED <<disk, clock, reader>>

Working ==
  \/ \E p \in Adders : \/ ReadPackName(p)
                       \/ StartCopy(p) \/ BeginFile(p) \/ EndFile(p) \/ FinishCopy(p)
                       \/ ReadRegistry(p) \/ EmptyRegistry(p) \/ WriteRegistry(p) \/ Kill(p)
  \/ Tick
  \/ \E cmd \in Commands, text \in Printed, args \in Args : Capture(cmd, text, args)
  \/ \E cmd \in Commands : CaptureFailed(cmd)
  \/ \E file \in DOMAIN fixtures : Spoil(file) \/ \E e \in Expectations : WriteExpected(file, e)
  \/ \E version \in Readers : Upgrade(version)
  \/ \E as \in Loadings : StartServer(as) \/ Test(as)
Judging == \E suite \in Suites : Evaluate(suite)
Next == Working \/ Judging

Spec == Init /\ [][Next]_vars

----------------------------------------------------------------------------

(* What the author may rely on.                                            *)

\* A registered pack is on the disk as the last add of that name was given it,
\* whoever else is adding, unless that very copy still runs or was broken off,
\* another copy into its directory ran beside it, or an earlier pack left a file
\* there that it does not have: cpSync (add.ts:37) removes nothing.
RegisteredLoads ==
  \A n \in ReadOf(registry) :
    /\ n \in DOMAIN parsers
    /\ LET p == parsers[n].last IN
         /\ adder[p].at \notin {"copying", "broken"} /\ adder[p].beside = {}
         /\ DOMAIN parsers[n].files \subseteq Files(p)
         => Whole(n, p)

\* What a fixture holds is the output with each hidden place replaced by its
\* marker and every other unit where it was; each match of a rule is hidden or
\* touches a place that is, and the redactions count what was hidden.
ShownOf(text, ranges) ==
  LET Unit(i) == IF \E r \in ranges : r.start = i - 1
                 THEN <<(CHOOSE r \in ranges : r.start = i - 1).marker>>
                 ELSE IF \E r \in ranges : r.start < i /\ i <= r.end THEN <<>> ELSE <<text[i]>>
  IN  FlattenSeq([i \in DOMAIN text |-> Unit(i)])
Counted(redactions) == FoldLeft(LAMBDA n, r : n + r.count, 0, redactions)
Redacted(file) ==
  LET ranges  == SanitizeText(file.printed, Rules).ranges
      Secret(i) == file.given[i].secret
      Matched == UNION {FindRanges(file.printed, Rules[k]) : k \in DOMAIN Rules}
  IN  /\ file.stdout = ShownOf(file.printed, ranges)
      /\ \A m \in Matched : \E r \in ranges : Overlap(m, r)
      /\ \A i \in DOMAIN file.given :
           /\ file.args[i].name = file.given[i].name
           /\ file.args[i].value = IF Secret(i) THEN "redacted" ELSE file.given[i].value
      /\ Counted(file.redactions)
           = Cardinality(ranges) + Cardinality({i \in DOMAIN file.given : Secret(i)})
RedactsInPlace ==
  \A f \in DOMAIN fixtures : fixtures[f].kind = "manifest" => Redacted(fixtures[f])

\* parism test exits with 0 exactly when every file is a fixture, every reviewed
\* one is read as it says, in the parts it names, and no fixture of a pack
\* failed. What nobody reviewed never fails it.
Agrees(expected, read) ==
  LET Same(p) ==
        LET want == expected.evidence[p]
            got  == read.evidence[p]
        IN  /\ Len(got) = Len(want)
            /\ \A i \in DOMAIN want : \A f \in DOMAIN want[i].fields :
                 f \in DOMAIN got[i].fields /\ got[i].fields[f] = want[i].fields[f]
  IN  /\ "parsed" \in DOMAIN expected => expected.parsed = read.parsed
      /\ "failure" \in DOMAIN expected => expected.failure = read.failure
      /\ "evidence" \in DOMAIN expected =>
           /\ DOMAIN expected.evidence \subseteq DOMAIN read.evidence
           /\ \A p \in DOMAIN expected.evidence : Same(p)
           /\ expected.exhaustive => DOMAIN expected.evidence = DOMAIN read.evidence
GreenIsEarned ==
  answer.kind = "test" =>
    (answer.exit = 0 <=>
       /\ \A f \in DOMAIN answer.files :
            LET file == answer.files[f] IN
              /\ file.kind = "manifest"
              /\ "reviewed_by" \in DOMAIN file.expected
                   => Agrees(file.expected, answer.reader[file.stdout])
       /\ \A n \in DOMAIN answer.packs : answer.packs[n].failed = 0)

\* fixtures/run.ts and README.en.md: a pack that could not be replayed counts as
\* a failure, and so does a broken fixture.
BrokenPackFails ==
  answer.kind = "test" /\ answer.exit = 0 =>
    \A n \in DOMAIN answer.packs :
      answer.packs[n].status # "not_replayable" /\ answer.packs[n].errored = 0

\* parism eval fails exactly when some level judged a case and it missed, or a
\* run ended in an exception: the tallies it prints and its exit code do not
\* contradict each other, and what depends on the host is in neither.
EvalAgrees ==
  answer.kind = "eval" =>
    (answer.exit = 1 <=>
       \/ \E l \in Levels : answer.levels[l].matched < answer.levels[l].judged
       \/ \E i \in DOMAIN answer.results : answer.results[i].observed.execution = "spawn_failed")

=============================================================================
