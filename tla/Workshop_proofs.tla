--------------------------- MODULE Workshop_proofs ---------------------------
(***************************************************************************)
(* The author's side, for any number of adds, packs and suites: a directory *)
(* that one add copied alone is the pack it was given, however the adds     *)
(* interleave and wherever they are killed, parism eval exits with what its *)
(* own tallies say, and parism test is green exactly when everything        *)
(* reviewed is read as it says.                                             *)
(***************************************************************************)
EXTENDS Workshop, FiniteSetTheorems, SequenceTheorems, WellFoundedInduction, TLAPS

AtSteps == {"idle", "copy", "copying", "read", "write", "writing", "done", "failed", "killed", "broken"}

\* The steps at which the copy of an add is complete.
Copied == {"read", "write", "writing", "done"}

AllFiles == UNION {Files(p) : p \in Adders}
Adds == [at : AtSteps, seen : SUBSET Names, todo : SUBSET AllFiles, open : SUBSET AllFiles,
         beside : SUBSET Adders]

\* What an add has yet to copy and the one file it writes are files of its pack,
\* and it has neither but while it copies, or when its copy was broken off.
AddsInv ==
  /\ adder \in [Adders -> Adds]
  /\ \A p \in Adders :
       /\ adder[p].todo \subseteq Files(p)
       /\ \A f, g \in adder[p].open : f = g
       /\ adder[p].at \notin {"copying", "broken"} => adder[p].todo = {} /\ adder[p].open = {}

\* A file in the directory n holds what p wrote and nothing else, and p alone may
\* still be at it.
Mine(n, p, f) ==
  /\ f \in DOMAIN parsers[n].files
  /\ parsers[n].files[f] = [of |-> {p}, torn |-> IF f \in adder[p].open THEN {p} ELSE {}]

\* No other add copies beside the last one, unless it is known to, and then what
\* the last one has taken is in the directory.
Alone(n, p) ==
  /\ \A q \in Adders : q # p /\ Name(q) = n => adder[q].at # "copying"
  /\ \A f \in Files(p) \ adder[p].todo : Mine(n, p, f)

\* The directory n, into which p was the last to begin to copy.
Dir(n, p) ==
  /\ parsers[n] = [last |-> p, files |-> parsers[n].files]
  /\ Name(p) = n /\ adder[p].at \notin {"idle", "copy"}
  /\ adder[p].beside = {} => Alone(n, p)

CopiesInv == \A n \in DOMAIN parsers : \E p \in Adders : Dir(n, p)

\* Nothing is registered, or read in order to be registered again, before its
\* directory is there; directories are never taken away.
EntriesInv ==
  /\ DOMAIN parsers \subseteq Names
  /\ ReadOf(registry) \subseteq DOMAIN parsers
  /\ \A p \in Adders : /\ adder[p].at \in {"copying"} \cup Copied => Name(p) \in DOMAIN parsers
                       /\ adder[p].seen \subseteq DOMAIN parsers

InstallInv == AddsInv /\ CopiesInv /\ EntriesInv

addVars == <<adder, parsers, registry>>

LEMMA InstallInit == ASSUME Init PROVE InstallInv
<1>1. adder = [p \in Adders |-> NewAdd] /\ DOMAIN parsers = {} /\ ReadOf(registry) = {}
  BY DEF Init, Nothing, Absent, ReadOf
<1>2. NewAdd \in Adds
  BY DEF NewAdd, Adds, AtSteps
<1>3. AddsInv
  BY <1>1, <1>2 DEF AddsInv, NewAdd
<1> QED
  BY <1>1, <1>3 DEF InstallInv, CopiesInv, EntriesInv, Copied, NewAdd

\* An add goes to another step: nothing else of it changes, and nothing of the
\* other adds.
LEMMA GoesOne ==
    ASSUME InstallInv, NEW p \in Adders, NEW step \in AtSteps, Goes(p, step)
    PROVE  /\ adder' \in [Adders -> Adds]
           /\ adder'[p].at = step
           /\ \A q \in Adders : q # p => adder'[q] = adder[q]
           /\ \A q \in Adders : /\ adder'[q].seen = adder[q].seen /\ adder'[q].todo = adder[q].todo
                                /\ adder'[q].open = adder[q].open
                                /\ adder'[q].beside = adder[q].beside
BY DEF InstallInv, AddsInv, Adds, Goes

\* It disturbs no directory, unless it begins to copy, or is no longer the one
\* that copied.
LEMMA GoesKeeps ==
    ASSUME InstallInv, NEW p \in Adders, NEW step \in AtSteps \ {"copying"}, Goes(p, step),
           step \in {"idle", "copy"} => adder[p].at \in {"idle", "copy"},
           step # "broken" => adder[p].todo = {} /\ adder[p].open = {},
           parsers' = parsers
    PROVE  AddsInv' /\ CopiesInv'
<1>1. step \in AtSteps
  OBVIOUS
<1>2. /\ adder' \in [Adders -> Adds]
      /\ adder'[p].at = step
      /\ \A q \in Adders : q # p => adder'[q] = adder[q]
      /\ \A q \in Adders : /\ adder'[q].seen = adder[q].seen /\ adder'[q].todo = adder[q].todo
                           /\ adder'[q].open = adder[q].open
                           /\ adder'[q].beside = adder[q].beside
  BY <1>1, GoesOne
<1>3. AddsInv'
  BY <1>2 DEF InstallInv, AddsInv
<1>4. CopiesInv'
  <2> SUFFICES ASSUME NEW n \in DOMAIN parsers PROVE \E q \in Adders : Dir(n, q)'
    BY DEF CopiesInv
  <2>1. PICK q \in Adders : Dir(n, q)
    BY DEF InstallInv, CopiesInv
  <2>2. adder'[q].at \notin {"idle", "copy"}
    BY <1>2, <2>1 DEF Dir
  <2>3. Alone(n, q) => Alone(n, q)'
    BY <1>2 DEF Alone, Mine
  <2> QED
    BY <1>2, <2>1, <2>2, <2>3 DEF Dir
<1> QED
  BY <1>3, <1>4

LEMMA ReadNameKeeps ==
    ASSUME InstallInv, NEW p \in Adders, ReadPackName(p) PROVE InstallInv'
<1>1. PICK step \in {"copy", "failed"} : Goes(p, step)
  BY DEF ReadPackName
<1>2. adder[p].at = "idle" /\ parsers' = parsers /\ registry' = registry
  BY DEF ReadPackName
<1>3. step \in AtSteps \ {"copying"} /\ adder[p].todo = {} /\ adder[p].open = {}
  BY <1>2 DEF AtSteps, InstallInv, AddsInv
<1>4. AddsInv' /\ CopiesInv'
  BY <1>1, <1>2, <1>3, GoesKeeps
<1>5. EntriesInv'
  BY <1>1, <1>2, <1>3, GoesOne DEF InstallInv, EntriesInv, Copied, ReadOf
<1> QED
  BY <1>4, <1>5 DEF InstallInv

\* The copy goes over what is there: from now on the directory is this add's.
LEMMA StartKeeps ==
    ASSUME InstallInv, NEW p \in Adders, StartCopy(p) PROVE InstallInv'
<1> DEFINE n == Name(p)
           files == FilesIn(n)
           dir == [last |-> p, files |-> files]
<1>0. n \in Names
  BY DEF Names
<1>1. /\ parsers' = With(parsers, n, dir) /\ adder[p].at = "copy" /\ registry' = registry
      /\ adder' = [q \in Adders |->
                     CASE q = p -> [adder[q] EXCEPT !.at = "copying", !.todo = Files(p),
                                                    !.beside = Rivals(p)]
                       [] q \in Rivals(p) -> [adder[q] EXCEPT !.beside = @ \cup {p}]
                       [] OTHER -> adder[q]]
  BY DEF StartCopy
<1>2. adder \in [Adders -> Adds] /\ adder[p].open = {} /\ p \notin Rivals(p) /\ Rivals(p) \subseteq Adders
  BY <1>1 DEF InstallInv, AddsInv, Rivals
<1> HIDE DEF n, dir
<1>3. /\ DOMAIN parsers' = DOMAIN parsers \cup {n} /\ parsers'[n] = dir
      /\ \A m \in DOMAIN parsers : m # n => parsers'[m] = parsers[m]
  BY <1>1 DEF With
<1>4. /\ adder'[p] = [adder[p] EXCEPT !.at = "copying", !.todo = Files(p), !.beside = Rivals(p)]
      /\ \A q \in Rivals(p) : adder'[q] = [adder[q] EXCEPT !.beside = @ \cup {p}]
      /\ \A q \in Adders : q # p /\ q \notin Rivals(p) => adder'[q] = adder[q]
  BY <1>1, <1>2
<1>5. /\ adder'[p].at = "copying" /\ adder'[p].todo = Files(p) /\ adder'[p].open = {}
      /\ adder'[p].beside = Rivals(p) /\ adder'[p].seen = adder[p].seen
      /\ \A q \in Adders : q # p =>
           /\ adder'[q].at = adder[q].at /\ adder'[q].todo = adder[q].todo
           /\ adder'[q].open = adder[q].open /\ adder'[q].seen = adder[q].seen
      /\ \A q \in Adders : Name(q) # n => adder'[q] = adder[q]
  <2>1. adder'[p].at = "copying" /\ adder'[p].todo = Files(p) /\ adder'[p].open = adder[p].open
        /\ adder'[p].beside = Rivals(p) /\ adder'[p].seen = adder[p].seen
    <3>1. adder[p] \in Adds
      BY <1>2
    <3> QED
      BY <1>4, <3>1 DEF Adds
  <2>2. ASSUME NEW q \in Rivals(p)
        PROVE  /\ adder'[q].at = adder[q].at /\ adder'[q].todo = adder[q].todo
               /\ adder'[q].open = adder[q].open /\ adder'[q].seen = adder[q].seen
    <3>1. adder[q] \in Adds
      BY <1>2
    <3> QED
      BY <1>4, <3>1 DEF Adds
  <2>3. \A q \in Rivals(p) : Name(q) = n
    BY DEF Rivals, n
  <2>4. \A q \in Adders : Name(q) # n => adder'[q] = adder[q]
    BY <1>4, <2>3 DEF n
  <2> QED
    BY <1>2, <1>4, <2>1, <2>2, <2>4
<1>6. AddsInv'
  <2>1. \A q \in Adders : adder'[q] \in Adds
    <3>1. Files(p) \in SUBSET AllFiles
      BY DEF AllFiles
    <3>2. adder'[p] \in Adds
      BY <1>2, <1>4, <3>1 DEF Adds, AtSteps
    <3>3. ASSUME NEW q \in Rivals(p) PROVE adder'[q] \in Adds
      <4>1. adder[q] \in Adds /\ adder'[q] = [adder[q] EXCEPT !.beside = @ \cup {p}]
        BY <1>2, <1>4
      <4> QED
        BY <4>1 DEF Adds
    <3> QED
      BY <1>2, <1>4, <3>2, <3>3
  <2>2. adder' \in [Adders -> Adds]
    BY <1>1, <2>1
  <2> QED
    BY <1>5, <2>2 DEF InstallInv, AddsInv
<1>7. CopiesInv'
  <2> SUFFICES ASSUME NEW m \in DOMAIN parsers' PROVE \E q \in Adders : Dir(m, q)'
    BY DEF CopiesInv
  <2>1. CASE m = n
    <3>1. parsers'[m] = [last |-> p, files |-> parsers'[m].files]
      BY <1>3, <2>1 DEF dir
    <3>2. Rivals(p) = {} => Alone(m, p)'
      BY <1>5, <2>1 DEF Alone, Rivals, n
    <3>3. Dir(m, p)'
      BY <1>5, <2>1, <3>1, <3>2 DEF Dir, n
    <3> QED
      BY <3>3
  <2>2. CASE m # n
    <3>1. m \in DOMAIN parsers /\ parsers'[m] = parsers[m]
      BY <1>3, <2>2
    <3>2. PICK q \in Adders : Dir(m, q)
      BY <3>1 DEF InstallInv, CopiesInv
    <3>3. adder'[q] = adder[q]
      BY <1>5, <2>2, <3>2 DEF Dir
    <3>4. Alone(m, q) => Alone(m, q)'
      <4>1. \A o \in Adders : o # q /\ Name(o) = m => adder'[o] = adder[o]
        BY <1>5, <2>2
      <4> QED
        BY <3>1, <3>3, <4>1 DEF Alone, Mine
    <3> QED
      BY <3>1, <3>2, <3>3, <3>4 DEF Dir
  <2> QED
    BY <2>1, <2>2
<1>8. EntriesInv'
  BY <1>0, <1>1, <1>3, <1>5 DEF InstallInv, EntriesInv, Copied, ReadOf, n
<1> QED
  BY <1>6, <1>7, <1>8 DEF InstallInv

\* Who copies into a directory another add was the last to begin at runs beside it.
LEMMA LastOrBeside ==
    ASSUME InstallInv, NEW p \in Adders, adder[p].at = "copying"
    PROVE  /\ Name(p) \in DOMAIN parsers
           /\ \E last \in Adders : /\ Dir(Name(p), last)
                                   /\ last # p => adder[last].beside # {}
<1>1. Name(p) \in DOMAIN parsers
  BY DEF InstallInv, EntriesInv
<1>2. PICK last \in Adders : Dir(Name(p), last)
  BY <1>1 DEF InstallInv, CopiesInv
<1>3. last # p => adder[last].beside # {}
  BY <1>2 DEF Dir, Alone
<1> QED
  BY <1>1, <1>2, <1>3

\* One file is written over, or to its end: the directory stays that of the last
\* add, which knows of it when it is alone.
LEMMA FileKeeps ==
    ASSUME InstallInv, NEW p \in Adders, adder[p].at = "copying", NEW files, NEW todo, NEW open,
           parsers' = [parsers EXCEPT ![Name(p)].files = files],
           adder' = [adder EXCEPT ![p].todo = todo, ![p].open = open],
           registry' = registry,
           todo \subseteq Files(p), open \subseteq Files(p), \A f, g \in open : f = g,
           Alone(Name(p), p)
           => \A f \in Files(p) \ todo :
                /\ f \in DOMAIN files
                /\ files[f] = [of |-> {p}, torn |-> IF f \in open THEN {p} ELSE {}]
    PROVE  InstallInv'
<1> DEFINE n == Name(p)
<1>1. n \in DOMAIN parsers
  BY LastOrBeside
<1>2. PICK last \in Adders : Dir(n, last) /\ (last # p => adder[last].beside # {})
  BY LastOrBeside
<1>3. adder \in [Adders -> Adds] /\ todo \in SUBSET AllFiles /\ open \in SUBSET AllFiles
  BY DEF InstallInv, AddsInv, AllFiles
<1>4. /\ adder'[p].at = "copying" /\ adder'[p].todo = todo /\ adder'[p].open = open
      /\ \A q \in Adders : /\ adder'[q].at = adder[q].at /\ adder'[q].seen = adder[q].seen
                           /\ adder'[q].beside = adder[q].beside
                           /\ q # p => adder'[q] = adder[q]
      /\ adder' \in [Adders -> Adds]
  <2>1. /\ adder'[p] = [adder[p] EXCEPT !.todo = todo, !.open = open] /\ adder[p] \in Adds
        /\ \A q \in Adders : q # p => adder'[q] = adder[q]
    BY <1>3
  <2>2. /\ adder'[p].todo = todo /\ adder'[p].open = open /\ adder'[p].at = adder[p].at
        /\ adder'[p].seen = adder[p].seen /\ adder'[p].beside = adder[p].beside
        /\ adder'[p] \in Adds
    BY <1>3, <2>1 DEF Adds
  <2> QED
    BY <1>3, <2>1, <2>2
<1>5. /\ DOMAIN parsers' = DOMAIN parsers
      /\ \A m \in DOMAIN parsers : m # n => parsers'[m] = parsers[m]
      /\ parsers'[n] = [parsers[n] EXCEPT !.files = files]
  BY <1>1
<1> HIDE DEF n
<1>6. parsers'[n] = [last |-> last, files |-> files]
  <2>1. parsers[n] = [last |-> last, files |-> parsers[n].files]
    BY <1>2 DEF Dir
  <2> QED
    BY <1>5, <2>1
<1>7. AddsInv'
  BY <1>4 DEF InstallInv, AddsInv
<1>8. CopiesInv'
  <2> SUFFICES ASSUME NEW m \in DOMAIN parsers PROVE \E q \in Adders : Dir(m, q)'
    BY <1>5 DEF CopiesInv
  <2>1. CASE m = n
    <3>1. parsers'[m].files = files /\ parsers'[m] = [last |-> last, files |-> parsers'[m].files]
      BY <1>6, <2>1
    <3>2. ASSUME adder[last].beside = {} PROVE Alone(m, last)'
      <4>1. last = p /\ Alone(n, p)
        BY <1>2, <3>2 DEF Dir
      <4>2. \A f \in Files(p) \ todo : Mine(m, p, f)'
        BY <1>4, <3>1, <4>1 DEF Mine, n
      <4>3. \A q \in Adders : q # p /\ Name(q) = m => adder'[q].at # "copying"
        BY <1>4, <2>1, <4>1 DEF Alone
      <4> QED
        BY <1>4, <4>1, <4>2, <4>3 DEF Alone
    <3>3. Dir(m, last)'
      BY <1>2, <1>4, <2>1, <3>1, <3>2 DEF Dir
    <3> QED
      BY <3>3
  <2>2. CASE m # n
    <3>1. parsers'[m] = parsers[m]
      BY <1>5, <2>2
    <3>2. PICK q \in Adders : Dir(m, q)
      BY DEF InstallInv, CopiesInv
    <3>3. adder'[q] = adder[q]
      BY <1>4, <2>2, <3>2 DEF n, Dir
    <3>4. Alone(m, q) => Alone(m, q)'
      <4>1. \A f \in Files(q) \ adder[q].todo : Mine(m, q, f) => Mine(m, q, f)'
        BY <3>1, <3>3 DEF Mine
      <4> QED
        BY <1>4, <3>3, <4>1 DEF Alone
    <3> QED
      BY <3>1, <3>2, <3>3, <3>4 DEF Dir
  <2> QED
    BY <2>1, <2>2
<1>9. EntriesInv'
  BY <1>4, <1>5 DEF InstallInv, EntriesInv, ReadOf
<1> QED
  BY <1>7, <1>8, <1>9 DEF InstallInv

LEMMA BeginKeeps ==
    ASSUME InstallInv, NEW p \in Adders, BeginFile(p) PROVE InstallInv'
<1> DEFINE n == Name(p)
           had == FilesIn(n)
<1>1. PICK f \in adder[p].todo :
        LET others == Writers(p, f)
            begun  == [of   |-> {p} \cup (IF others = {} THEN {} ELSE had[f].of),
                       torn |-> {p} \cup others]
        IN  /\ parsers' = [parsers EXCEPT ![n].files = With(had, f, begun)]
            /\ adder' = [adder EXCEPT ![p].todo = @ \ {f}, ![p].open = {f}]
  BY DEF BeginFile
<1>2. adder[p].at = "copying" /\ adder[p].open = {} /\ registry' = registry
  BY DEF BeginFile
<1> DEFINE others == Writers(p, f)
           begun == [of   |-> {p} \cup (IF others = {} THEN {} ELSE had[f].of),
                     torn |-> {p} \cup others]
           files == With(had, f, begun)
           todo == adder[p].todo \ {f}
           open == {f}
<1>3. n \in DOMAIN parsers /\ had = parsers[n].files
  BY <1>2, LastOrBeside DEF FilesIn
<1>4. todo \subseteq Files(p) /\ open \subseteq Files(p) /\ \A g, h \in open : g = h
  BY DEF InstallInv, AddsInv
<1>5. ASSUME Alone(n, p), NEW g \in Files(p) \ todo
      PROVE  /\ g \in DOMAIN files
             /\ files[g] = [of |-> {p}, torn |-> IF g \in open THEN {p} ELSE {}]
  <2>2. others = {}
    BY <1>5 DEF Alone, Writers, Rivals
  <2>3. begun = [of |-> {p}, torn |-> {p}]
    BY <2>2
  <2> HIDE DEF begun, had, others
  <2>4. DOMAIN files = DOMAIN had \cup {f} /\ files[f] = begun
        /\ \A h \in DOMAIN had : h # f => files[h] = had[h]
    BY DEF With
  <2>5. CASE g = f
    BY <2>3, <2>4, <2>5
  <2>6. CASE g # f
    <3>1. Mine(n, p, g)
      BY <1>5, <2>6 DEF Alone
    <3>2. g \in DOMAIN had /\ had[g] = [of |-> {p}, torn |-> {}]
      BY <1>2, <1>3, <3>1 DEF Mine
    <3> QED
      BY <2>4, <2>6, <3>2
  <2> QED
    BY <2>5, <2>6
<1>6. /\ parsers' = [parsers EXCEPT ![Name(p)].files = files]
      /\ adder' = [adder EXCEPT ![p].todo = todo, ![p].open = open]
  BY <1>1
<1> HIDE DEF files, todo, open
<1> QED
  BY <1>2, <1>4, <1>5, <1>6, FileKeeps

LEMMA EndKeeps ==
    ASSUME InstallInv, NEW p \in Adders, EndFile(p) PROVE InstallInv'
<1> DEFINE n == Name(p)
           had == parsers[n].files
<1>1. PICK f \in adder[p].open : parsers' = [parsers EXCEPT ![n].files[f].torn = @ \ {p}]
  BY DEF EndFile
<1>2. /\ adder[p].at = "copying" /\ registry' = registry
      /\ adder' = [adder EXCEPT ![p].open = {}]
  BY DEF EndFile
<1> DEFINE files == [had EXCEPT ![f].torn = @ \ {p}]
           todo == adder[p].todo
           open == {}
<1>3. n \in DOMAIN parsers
  BY <1>2, LastOrBeside
<1>4. todo \subseteq Files(p) /\ \A g \in adder[p].open : g = f
  BY DEF InstallInv, AddsInv
<1>5. ASSUME Alone(n, p), NEW g \in Files(p) \ todo
      PROVE  /\ g \in DOMAIN files
             /\ files[g] = [of |-> {p}, torn |-> IF g \in open THEN {p} ELSE {}]
  <2>1. g \in DOMAIN had /\ had[g] = [of |-> {p}, torn |-> IF g \in adder[p].open THEN {p} ELSE {}]
    BY <1>5 DEF Alone, Mine
  <2> HIDE DEF had
  <2>2. CASE g = f
    <3>1. files[g] = [had[g] EXCEPT !.torn = @ \ {p}]
      BY <2>1, <2>2
    <3>2. had[g] = [of |-> {p}, torn |-> {p}]
      BY <2>1, <2>2
    <3> QED
      BY <2>1, <3>1, <3>2
  <2>3. CASE g # f
    BY <1>4, <2>1, <2>3
  <2> QED
    BY <2>2, <2>3
<1>6. parsers' = [parsers EXCEPT ![Name(p)].files = files]
  BY <1>1
<1>7. adder' = [adder EXCEPT ![p].todo = todo, ![p].open = open]
  <2>1. adder \in [Adders -> Adds]
    BY DEF InstallInv, AddsInv
  <2> QED
    BY <1>2, <2>1 DEF Adds
<1>8. open \subseteq Files(p) /\ \A g, h \in open : g = h
  OBVIOUS
<1> HIDE DEF files, todo, open
<1> QED
  BY <1>2, <1>4, <1>5, <1>6, <1>7, <1>8, FileKeeps

LEMMA FinishKeeps ==
    ASSUME InstallInv, NEW p \in Adders, FinishCopy(p) PROVE InstallInv'
<1>1. /\ adder[p].at = "copying" /\ adder[p].todo = {} /\ adder[p].open = {} /\ Goes(p, "read")
      /\ parsers' = parsers /\ registry' = registry /\ "read" \in AtSteps \ {"copying"}
  BY DEF FinishCopy, AtSteps
<1>2. AddsInv' /\ CopiesInv'
  BY <1>1, GoesKeeps
<1>3. EntriesInv'
  BY <1>1, GoesOne DEF InstallInv, EntriesInv, Copied, ReadOf
<1> QED
  BY <1>2, <1>3 DEF InstallInv

\* What is read of the registry names packs that are there, and stay there.
LEMMA ReadRegistryKeeps ==
    ASSUME InstallInv, NEW p \in Adders, ReadRegistry(p) PROVE InstallInv'
<1>1. PICK step \in {"failed", "write"} :
         adder' = [adder EXCEPT ![p].at = step, ![p].seen = ReadOf(registry)]
  BY DEF ReadRegistry
<1>2. adder[p].at = "read" /\ parsers' = parsers /\ registry' = registry
  BY DEF ReadRegistry
<1>3. adder \in [Adders -> Adds] /\ ReadOf(registry) \subseteq Names
  BY DEF InstallInv, AddsInv, EntriesInv
<1>4. /\ adder'[p].at = step /\ adder'[p].seen = ReadOf(registry)
      /\ adder'[p].todo = adder[p].todo /\ adder'[p].open = adder[p].open
      /\ adder'[p].beside = adder[p].beside
      /\ \A q \in Adders : q # p => adder'[q] = adder[q]
      /\ adder' \in [Adders -> Adds]
  <2> DEFINE at == step
             seen == ReadOf(registry)
  <2>1. /\ adder'[p] = [adder[p] EXCEPT !.at = at, !.seen = seen] /\ adder[p] \in Adds
        /\ \A q \in Adders : q # p => adder'[q] = adder[q]
    BY <1>1, <1>3
  <2>2. at \in AtSteps /\ seen \subseteq Names
    BY <1>3 DEF AtSteps
  <2> HIDE DEF at, seen
  <2>3. /\ adder'[p].at = at /\ adder'[p].seen = seen
        /\ adder'[p].todo = adder[p].todo /\ adder'[p].open = adder[p].open
        /\ adder'[p].beside = adder[p].beside /\ adder'[p] \in Adds
    BY <2>1, <2>2 DEF Adds
  <2>4. adder' \in [Adders -> Adds]
    BY <1>1, <1>3, <2>1, <2>3
  <2> QED
    BY <2>1, <2>3, <2>4 DEF at, seen
<1>5. AddsInv'
  BY <1>2, <1>4 DEF InstallInv, AddsInv
<1>6. CopiesInv'
  <2> SUFFICES ASSUME NEW n \in DOMAIN parsers PROVE \E q \in Adders : Dir(n, q)'
    BY <1>2 DEF CopiesInv
  <2>1. PICK q \in Adders : Dir(n, q)
    BY DEF InstallInv, CopiesInv
  <2>2. Alone(n, q) => Alone(n, q)'
    BY <1>2, <1>4 DEF Alone, Mine
  <2>3. adder'[q].at \notin {"idle", "copy"} /\ adder'[q].beside = adder[q].beside
    BY <1>4, <2>1 DEF Dir
  <2> QED
    BY <1>2, <2>1, <2>2, <2>3 DEF Dir
<1>7. EntriesInv'
  BY <1>2, <1>4 DEF InstallInv, EntriesInv, Copied, ReadOf
<1> QED
  BY <1>5, <1>6, <1>7 DEF InstallInv

LEMMA EmptyKeeps ==
    ASSUME InstallInv, NEW p \in Adders, EmptyRegistry(p) PROVE InstallInv'
<1>1. /\ adder[p].at = "write" /\ Goes(p, "writing") /\ "writing" \in AtSteps \ {"copying"}
      /\ parsers' = parsers /\ registry' = Torn
  BY DEF EmptyRegistry, AtSteps
<1>2. adder[p].todo = {} /\ adder[p].open = {}
  BY <1>1 DEF InstallInv, AddsInv
<1>3. AddsInv' /\ CopiesInv'
  BY <1>1, <1>2, GoesKeeps
<1>4. EntriesInv'
  BY <1>1, GoesOne DEF InstallInv, EntriesInv, Copied, ReadOf, Torn
<1> QED
  BY <1>3, <1>4 DEF InstallInv

LEMMA WriteKeeps ==
    ASSUME InstallInv, NEW p \in Adders, WriteRegistry(p) PROVE InstallInv'
<1>1. /\ adder[p].at = "writing" /\ Goes(p, "done") /\ "done" \in AtSteps \ {"copying"}
      /\ parsers' = parsers /\ registry' = Entries(adder[p].seen \cup {Name(p)})
  BY DEF WriteRegistry, AtSteps
<1>2. adder[p].todo = {} /\ adder[p].open = {}
  BY <1>1 DEF InstallInv, AddsInv
<1>3. AddsInv' /\ CopiesInv'
  BY <1>1, <1>2, GoesKeeps
<1>4. EntriesInv'
  BY <1>1, GoesOne DEF InstallInv, EntriesInv, Copied, ReadOf, Entries
<1> QED
  BY <1>3, <1>4 DEF InstallInv

LEMMA KillKeeps ==
    ASSUME InstallInv, NEW p \in Adders, Kill(p) PROVE InstallInv'
<1> DEFINE step == IF adder[p].at = "copying" THEN "broken" ELSE "killed"
<1>1. /\ adder[p].at \notin {"idle", "broken"} /\ Goes(p, step) /\ step \in AtSteps \ {"copying"}
      /\ parsers' = parsers /\ registry' = registry
  BY DEF Kill, AtSteps
<1>2. /\ step \notin {"idle", "copy"} \cup Copied
      /\ step # "broken" => adder[p].todo = {} /\ adder[p].open = {}
  BY <1>1 DEF InstallInv, AddsInv, Copied
<1> HIDE DEF step
<1>3. AddsInv' /\ CopiesInv'
  BY <1>1, <1>2, GoesKeeps
<1>4. EntriesInv'
  BY <1>1, <1>2, GoesOne DEF InstallInv, EntriesInv, ReadOf
<1> QED
  BY <1>3, <1>4 DEF InstallInv

\* The other commands read the packs and the registry, and write neither.
LEMMA InstallNext == ASSUME InstallInv, [Next]_vars PROVE InstallInv'
<1>1. ASSUME UNCHANGED addVars PROVE InstallInv'
  BY <1>1 DEF addVars, InstallInv, AddsInv, CopiesInv, EntriesInv, Dir, Alone, Mine, ReadOf
<1>2. CASE UNCHANGED vars
  BY <1>1, <1>2 DEF vars, addVars
<1>3. CASE Judging
  BY <1>1, <1>3 DEF Judging, Evaluate, disk, addVars
<1>4. CASE Working
  <2>1. ASSUME NEW p \in Adders,
               \/ ReadPackName(p) \/ StartCopy(p) \/ BeginFile(p) \/ EndFile(p) \/ FinishCopy(p)
               \/ ReadRegistry(p) \/ EmptyRegistry(p) \/ WriteRegistry(p) \/ Kill(p)
        PROVE  InstallInv'
    BY <2>1, ReadNameKeeps, StartKeeps, BeginKeeps, EndKeeps, FinishKeeps, ReadRegistryKeeps,
       EmptyKeeps, WriteKeeps, KillKeeps
  <2>2. CASE Tick
    BY <1>1, <2>2 DEF Tick, addVars
  <2>3. CASE \E cmd \in Commands, text \in Printed, args \in Args : Capture(cmd, text, args)
    BY <1>1, <2>3 DEF Capture, addVars
  <2>4. CASE \E file \in DOMAIN fixtures :
               Spoil(file) \/ \E e \in Expectations : WriteExpected(file, e)
    BY <1>1, <2>4 DEF Spoil, WriteExpected, addVars
  <2>5. CASE \E version \in Readers : Upgrade(version)
    BY <1>1, <2>5 DEF Upgrade, addVars
  <2>6. CASE \E as \in Loadings : StartServer(as) \/ Test(as)
    BY <1>1, <2>6 DEF StartServer, Test, disk, addVars
  <2>7. CASE \E cmd \in Commands : CaptureFailed(cmd)
    BY <1>1, <2>7 DEF CaptureFailed, addVars
  <2> QED
    BY <1>4, <2>1, <2>2, <2>3, <2>4, <2>5, <2>6, <2>7 DEF Working
<1> QED
  BY <1>2, <1>3, <1>4 DEF Next

LEMMA InstallInvLoads == ASSUME InstallInv PROVE RegisteredLoads
<1> SUFFICES ASSUME NEW n \in ReadOf(registry)
             PROVE  /\ n \in DOMAIN parsers
                    /\ LET p == parsers[n].last IN
                         /\ adder[p].at \notin {"copying", "broken"} /\ adder[p].beside = {}
                         /\ DOMAIN parsers[n].files \subseteq Files(p)
                         => Whole(n, p)
  BY DEF RegisteredLoads
<1>1. n \in DOMAIN parsers
  BY DEF InstallInv, EntriesInv
<1> DEFINE p == parsers[n].last
<1>2. ASSUME adder[p].at \notin {"copying", "broken"}, adder[p].beside = {},
             DOMAIN parsers[n].files \subseteq Files(p)
      PROVE  Whole(n, p)
  <2>1. p \in Adders /\ Alone(n, p)
    <3>1. PICK q \in Adders : Dir(n, q)
      BY <1>1 DEF InstallInv, CopiesInv
    <3>2. p = q
      BY <3>1 DEF Dir
    <3> QED
      BY <1>2, <3>1, <3>2 DEF Dir
  <2>2. adder[p].todo = {} /\ adder[p].open = {}
    BY <1>2, <2>1 DEF InstallInv, AddsInv
  <2>3. \A f \in Files(p) : f \in DOMAIN parsers[n].files
                            /\ parsers[n].files[f] = [of |-> {p}, torn |-> {}]
    BY <2>1, <2>2 DEF Alone, Mine
  <2> HIDE DEF p
  <2> QED
    BY <1>2, <2>3 DEF Whole
<1> QED
  BY <1>1, <1>2

\* A registered pack has its directory, and it is file by file what the last add
\* of that name was given, however many adds run at once and wherever one is
\* killed, unless that copy still runs or was broken off, another one into the
\* same directory ran beside it, or an earlier pack left a file there that it
\* does not have: addParserPack (cli/add.ts) copies before it registers, into
\* one directory for every add of a name, and takes nothing away.
THEOREM RegisteredPacksLoad == Spec => []RegisteredLoads
<1>1. Init => InstallInv
  BY InstallInit
<1>2. InstallInv /\ [Next]_vars => InstallInv'
  BY InstallNext
<1>3. InstallInv => RegisteredLoads
  BY InstallInvLoads
<1> QED
  BY <1>1, <1>2, <1>3, PTL DEF Spec

------------------------------------------------------------------------------
(* parism eval.                                                            *)

\* What a suite may be given: SuitesAssumption, for one of them.
Case(c) ==
  /\ \A l \in Levels \cap DOMAIN c.expect : c.expect[l] \in Wanted(l)
  /\ "stored" \in DOMAIN c =>
       /\ c.stored \in StoredOutcomes
       /\ "task" \in DOMAIN c.expect /\ c.expect.task = "succeed"
       /\ ~c.expect.environmentDependent

Observed(c) == IF "stored" \in DOMAIN c THEN ObserveStored(c.stored) ELSE Observe(c.result)

\* What is wanted is never that nothing is observed.
LEMMA WantedIsSeen ==
    ASSUME NEW l \in Levels, NEW want \in Wanted(l) PROVE Normalize(l, want) # "null"
BY DEF Levels, Wanted, Normalize

\* What an observer holds against a case is a missed expectation or an exception.
LEMMA OwnIsCounted ==
    ASSUME NEW c, Case(c)
    PROVE  /\ Observed(c).execution = "spawn_failed" => OwnMismatches(c) # {}
           /\ OwnMismatches(c) # {} => \/ Observed(c).execution = "spawn_failed"
                                      \/ Compare(Observed(c), c.expect) # {}
<1>1. CASE "stored" \in DOMAIN c
  <2>1. Observed(c) = ObserveStored(c.stored)
    BY <1>1 DEF Observed
  <2>2. Observed(c).execution # "spawn_failed"
    BY <1>1, <2>1 DEF Case, StoredOutcomes, ObserveStored, Seen
  <2>3. ASSUME OwnMismatches(c) # {} PROVE Compare(Observed(c), c.expect) # {}
    <3>1. c.stored \in {"not_retained", "changed", "answered"}
      BY <1>1, <2>3 DEF OwnMismatches
    <3>2. Observed(c)["task"] = "failed"
      BY <2>1, <3>1 DEF ObserveStored, Seen
    <3>3. Normalize("task", c.expect["task"]) = "succeeded"
      BY <1>1 DEF Case, Normalize
    <3>4. "task" \in Compare(Observed(c), c.expect)
      BY <1>1, <3>2, <3>3 DEF Case, Compare, Levels
    <3> QED
      BY <3>4
  <2> QED
    BY <2>2, <2>3
<1>2. CASE "stored" \notin DOMAIN c
  BY <1>2 DEF Observed, Observe, OwnMismatches, Seen
<1> QED
  BY <1>1, <1>2

\* A case misses on a level exactly when it is judged there and not matched.
LEMMA MissedIsJudged ==
    ASSUME NEW c, Case(c), NEW l \in Levels, NEW observed
    PROVE  l \in Compare(observed, c.expect)
             <=> l \in Judged(c.expect) /\ Normalize(l, c.expect[l]) # observed[l]
<1>1. l \in DOMAIN c.expect => Normalize(l, c.expect[l]) # "null"
  BY WantedIsSeen DEF Case
<1> QED
  BY <1>1 DEF Compare, Judged

\* The tally of a level shows a miss exactly when a case missed on it.
LEMMA TallyShowsMiss ==
    ASSUME NEW results, IsFiniteSet(DOMAIN results), NEW l
    PROVE  StatsFor(results, l).matched < StatsFor(results, l).judged
             <=> \E i \in DOMAIN results : /\ l \in Judged(results[i].expect)
                                           /\ Normalize(l, results[i].expect[l]) # results[i].observed[l]
<1> DEFINE J == {i \in DOMAIN results : l \in Judged(results[i].expect)}
           M == {i \in J : Normalize(l, results[i].expect[l]) = results[i].observed[l]}
<1>1. IsFiniteSet(J) /\ M \in SUBSET J
  BY FS_Subset
<1>2. /\ IsFiniteSet(M) /\ Cardinality(M) <= Cardinality(J)
      /\ Cardinality(J) = Cardinality(M) => J = M
  BY <1>1, FS_Subset
<1>3. Cardinality(M) \in Nat /\ Cardinality(J) \in Nat
  BY <1>1, <1>2, FS_CardinalityType
<1>4. Cardinality(M) < Cardinality(J) <=> J # M
  <2> HIDE DEF J, M
  <2> QED
    BY <1>2, <1>3
<1>5. J # M <=> \E i \in J : i \notin M
  BY <1>1
<1>6. StatsFor(results, l) = [judged |-> Cardinality(J), matched |-> Cardinality(M)]
  BY DEF StatsFor
<1>7. /\ StatsFor(results, l).judged = Cardinality(J)
      /\ StatsFor(results, l).matched = Cardinality(M)
  BY <1>6
<1> QED
  BY <1>4, <1>5, <1>7

\* eval (cli.ts:229) exits with 1 exactly when a tally shows a miss or a run
\* ended in an exception.
LEMMA ExitIsTallied ==
    ASSUME NEW suite \in Suites, NEW results, results = RunEvalSuite(suite)
    PROVE  EvalExit(results) = 1 <=>
             \/ \E l \in Levels : StatsFor(results, l).matched < StatsFor(results, l).judged
             \/ \E i \in DOMAIN results : results[i].observed.execution = "spawn_failed"
<1>1. /\ DOMAIN results = DOMAIN suite /\ IsFiniteSet(DOMAIN suite)
      /\ \A i \in DOMAIN suite :
           /\ Case(suite[i]) /\ results[i].expect = suite[i].expect
           /\ results[i].observed = Observed(suite[i])
           /\ results[i].mismatches = OwnMismatches(suite[i])
                                       \cup Compare(Observed(suite[i]), suite[i].expect)
  BY SuitesAssumption DEF Case, RunEvalSuite, Observed
<1> DEFINE Missed(i) == \E l \in Levels : l \in Judged(results[i].expect)
                           /\ Normalize(l, results[i].expect[l]) # results[i].observed[l]
           Threw(i) == results[i].observed.execution = "spawn_failed"
<1>2. \A i \in DOMAIN results : results[i].mismatches # {} <=> Missed(i) \/ Threw(i)
  <2> SUFFICES ASSUME NEW i \in DOMAIN results
               PROVE  results[i].mismatches # {} <=> Missed(i) \/ Threw(i)
    OBVIOUS
  <2> DEFINE missed == Compare(Observed(suite[i]), suite[i].expect)
  <2>1. missed \subseteq Levels
    BY DEF Compare
  <2>2. missed # {} <=> Missed(i)
    BY <1>1, <2>1, MissedIsJudged
  <2>3. /\ Threw(i) => OwnMismatches(suite[i]) # {}
        /\ OwnMismatches(suite[i]) # {} => Threw(i) \/ missed # {}
    BY <1>1, OwnIsCounted
  <2>4. results[i].mismatches # {} <=> OwnMismatches(suite[i]) # {} \/ missed # {}
    BY <1>1
  <2> QED
    BY <2>2, <2>3, <2>4
<1>3. \A l \in Levels :
        StatsFor(results, l).matched < StatsFor(results, l).judged
          <=> \E i \in DOMAIN results : /\ l \in Judged(results[i].expect)
                                        /\ Normalize(l, results[i].expect[l]) # results[i].observed[l]
  BY <1>1, TallyShowsMiss
<1>4. EvalExit(results) = 1 <=> \E i \in DOMAIN results : results[i].mismatches # {}
  BY DEF EvalExit
<1> QED
  BY <1>2, <1>3, <1>4

LEMMA EvalNext == ASSUME EvalAgrees, [Next]_vars PROVE EvalAgrees'
<1>1. CASE UNCHANGED answer
  BY <1>1 DEF EvalAgrees
<1>2. CASE answer'.kind # "eval"
  BY <1>2 DEF EvalAgrees
<1>3. ASSUME NEW suite \in Suites, Evaluate(suite) PROVE EvalAgrees'
  <2>1. PICK results : /\ results = RunEvalSuite(suite)
                       /\ answer' = [kind |-> "eval", results |-> results,
                                     levels |-> [l \in Levels |-> StatsFor(results, l)],
                                     exit |-> EvalExit(results)]
    BY <1>3 DEF Evaluate
  <2>2. /\ answer'.results = results /\ answer'.exit = EvalExit(results)
        /\ \A l \in Levels : answer'.levels[l] = StatsFor(results, l)
    BY <2>1
  <2> QED
    BY <2>1, <2>2, ExitIsTallied DEF EvalAgrees
<1>4. CASE Working
  <2>1. ASSUME NEW p \in Adders,
               \/ ReadPackName(p) \/ StartCopy(p) \/ BeginFile(p) \/ EndFile(p) \/ FinishCopy(p)
               \/ ReadRegistry(p) \/ EmptyRegistry(p) \/ WriteRegistry(p) \/ Kill(p)
        PROVE  UNCHANGED answer
    BY <2>1 DEF ReadPackName, StartCopy, BeginFile, EndFile, FinishCopy, ReadRegistry, EmptyRegistry,
       WriteRegistry, Kill
  <2>2. ASSUME NEW as \in Loadings, StartServer(as) \/ Test(as)
        PROVE  answer'.kind # "eval"
    <3>1. CASE StartServer(as)
      BY <3>1 DEF StartServer
    <3>2. CASE Test(as)
      <4>1. \E files, reads, report, packs, exit :
              answer' = [kind |-> "test", files |-> files, reader |-> reads,
                         report |-> report, packs |-> packs, exit |-> exit]
        BY <3>2, Zenon DEF Test
      <4> QED
        BY <4>1
    <3> QED
      BY <2>2, <3>1, <3>2
  <2>3. ASSUME \/ Tick
               \/ \E cmd \in Commands, text \in Printed, args \in Args : Capture(cmd, text, args)
               \/ \E file \in DOMAIN fixtures :
                     Spoil(file) \/ \E e \in Expectations : WriteExpected(file, e)
               \/ \E cmd \in Commands : CaptureFailed(cmd)
               \/ \E version \in Readers : Upgrade(version)
        PROVE  UNCHANGED answer
    BY <2>3 DEF Tick, Capture, CaptureFailed, Spoil, WriteExpected, Upgrade
  <2> QED
    BY <1>1, <1>2, <1>4, <2>1, <2>2, <2>3 DEF Working
<1> QED
  BY <1>1, <1>3, <1>4 DEF Next, Judging, vars

\* parism eval never contradicts itself, whatever suite it is given: it fails
\* exactly when a level it prints judged a case that missed, or a run ended in
\* an exception, and what depends on the host is in neither.
THEOREM EvalIsJust == Spec => []EvalAgrees
<1>1. Init => EvalAgrees
  BY DEF Init, EvalAgrees
<1>2. EvalAgrees /\ [Next]_vars => EvalAgrees'
  BY EvalNext
<1> QED
  BY <1>1, <1>2, PTL DEF Spec

------------------------------------------------------------------------------
(* The comparison of two values.                                           *)

\* Every set of numbers has a least one.
LEMMA Least ==
  ASSUME NEW T, T \subseteq Nat, T # {} PROVE \E m \in T : \A n \in T : m <= n
<1> DEFINE Less == {p \in Nat \X Nat : p[1] < p[2]}
<1>1. IsWellFoundedOn(Less, Nat)
  BY NatLessThanWellFounded DEF OpToRel
<1>2. PICK m \in T : \A n \in T : <<n, m>> \notin Less
  BY <1>1, WFMin
<1>3. ASSUME NEW n \in T PROVE m <= n
  <2>1. n \in Nat /\ m \in Nat /\ ~(<<n, m>>[1] < <<n, m>>[2])
    BY <1>2
  <2> QED
    BY <2>1
<1> QED
  BY <1>3

\* A set of numbers that holds 0 and every successor of its members holds all.
LEMMA Induct ==
  ASSUME NEW T, 0 \in T, \A n \in Nat : n \in T => n + 1 \in T PROVE Nat \subseteq T
<1> SUFFICES ASSUME ~(Nat \subseteq T) PROVE FALSE
  OBVIOUS
<1>1. PICK m \in Nat \ T : \A n \in Nat \ T : m <= n
  BY Least
<1> QED
  BY <1>1, m - 1 \in Nat \/ m = 0

\* What is found level by level, from the two values down.
Levelled(f, pair) ==
  /\ f[0] = {pair}
  /\ \A n \in Nat : n < MaxDepth => f[n + 1] = UNION {Within(p) : p \in f[n]}

LEMMA PairsLevelled ==
  ASSUME NEW e, NEW a, NEW base
  PROVE  Levelled(PairsBelow(e, a, base), [path |-> base, expected |-> e, actual |-> a])
<1> DEFINE start == {[path |-> base, expected |-> e, actual |-> a]}
           next(S) == UNION {Within(p) : p \in S}
           body(f) == [n \in 0 .. MaxDepth |-> IF n = 0 THEN start ELSE next(f[n - 1])]
           below == CHOOSE f : f = body(f)
           T == {n \in Nat : \E g : g[0] = start /\ \A k \in Nat : k < n => g[k + 1] = next(g[k])}
<1>0. MaxDepth \in Nat
  BY ReadingsAssumption
<1> HIDE DEF next, start
<1>1. Nat \subseteq T
  <2>1. 0 \in T
    <3> DEFINE g == [k \in {0} |-> start]
    <3>1. g[0] = start /\ \A k \in Nat : k < 0 => g[k + 1] = next(g[k])
      OBVIOUS
    <3> HIDE DEF g
    <3> QED
      BY <3>1
  <2>2. ASSUME NEW n \in Nat, n \in T PROVE n + 1 \in T
    <3>1. PICK g : g[0] = start /\ \A k \in Nat : k < n => g[k + 1] = next(g[k])
      BY <2>2
    <3> DEFINE h == [k \in 0 .. n + 1 |-> IF k <= n THEN g[k] ELSE next(g[n])]
    <3>2. h[0] = start
      BY <3>1
    <3>3. ASSUME NEW k \in Nat, k < n + 1 PROVE h[k + 1] = next(h[k])
      <4>1. h[k] = g[k]
        BY <3>3
      <4>2. CASE k < n
        BY <3>1, <4>1, <4>2
      <4>3. CASE k = n
        BY <4>1, <4>3
      <4> QED
        BY <3>3, <4>2, <4>3
    <3> HIDE DEF h
    <3> QED
      BY <3>2, <3>3
  <2> HIDE DEF T
  <2> QED
    BY <2>1, <2>2, Induct
<1>2. PICK g : g[0] = start /\ \A k \in Nat : k < MaxDepth => g[k + 1] = next(g[k])
  BY <1>0, <1>1
<1> DEFINE h == [n \in 0 .. MaxDepth |-> g[n]]
<1>3. h = body(h)
  <2>1. ASSUME NEW n \in 0 .. MaxDepth PROVE h[n] = body(h)[n]
    <3>1. CASE n = 0
      BY <1>0, <1>2, <3>1
    <3>2. CASE n # 0
      <4>1. n - 1 \in Nat /\ n - 1 \in 0 .. MaxDepth /\ (n - 1) + 1 = n /\ n - 1 < MaxDepth
        BY <1>0, <3>2
      <4>2. g[n] = next(g[n - 1])
        BY <1>2, <4>1
      <4> QED
        BY <3>2, <4>1, <4>2
    <3> QED
      BY <3>1, <3>2
  <2> QED
    BY <2>1
<1> HIDE DEF h
<1>4. below = body(below)
  BY <1>3
<1>5. PairsBelow(e, a, base) = below
  BY DEF PairsBelow, next, start
<1> HIDE DEF below
<1>6. below[0] = start
  BY <1>0, <1>4
<1>7. ASSUME NEW n \in Nat, n < MaxDepth PROVE below[n + 1] = next(below[n])
  <2>1. n + 1 \in 0 .. MaxDepth /\ n + 1 # 0 /\ (n + 1) - 1 = n
    BY <1>0, <1>7
  <2>2. below[n + 1] = body(below)[n + 1]
    BY <1>4
  <2>3. body(below)[n + 1] = next(below[n])
    BY <2>1
  <2> QED
    BY <2>2, <2>3
<1> QED
  BY <1>5, <1>6, <1>7 DEF Levelled, start, next

LEMMA PartsOf ==
  ASSUME NEW v
  PROVE  /\ v.kind = "array" => Parts(v) = v.items
         /\ v.kind = "object" => Parts(v) = v.fields
         /\ v.kind \notin {"array", "object"} => Parts(v) = << >>
BY DEF Parts

\* A pair with nothing that differs in it or below it is one of equal values.
LEMMA PairAgrees ==
  ASSUME NEW p, Shaped(p.expected), Shaped(p.actual), DiffHere(p) = {},
         \A q \in Within(p) : q.expected = q.actual
  PROVE  p.expected = p.actual
<1> DEFINE e == p.expected
           a == p.actual
<1>1. e.kind = a.kind
  BY DEF DiffHere
<1>2. CASE e.kind \notin {"array", "object"}
  <2>1. e.v = a.v
    BY <1>1, <1>2 DEF DiffHere
  <2>2. e = [kind |-> e.kind, v |-> e.v] /\ a = [kind |-> a.kind, v |-> a.v]
    BY <1>1, <1>2 DEF Shaped
  <2> QED
    BY <1>1, <2>1, <2>2
<1>3. ASSUME e.kind \in {"array", "object"}
      PROVE  DOMAIN Parts(e) = DOMAIN Parts(a) /\ \A k \in DOMAIN Parts(e) : Parts(e)[k] = Parts(a)[k]
  <2>1. Missing(p, DOMAIN Parts(e), DOMAIN Parts(a)) = {} /\ Extra(p, DOMAIN Parts(e), DOMAIN Parts(a)) = {}
    BY <1>1, <1>3 DEF DiffHere
  <2>2. DOMAIN Parts(e) = DOMAIN Parts(a)
    BY <2>1 DEF Missing, Extra
  <2>3. ASSUME NEW k \in DOMAIN Parts(e) PROVE Parts(e)[k] = Parts(a)[k]
    <3> DEFINE q == [path |-> Append(p.path, Step(e.kind, k)), expected |-> Parts(e)[k],
                     actual |-> Parts(a)[k]]
    <3>1. q \in Within(p)
      BY <1>1, <2>2, <2>3 DEF Within
    <3>2. q.expected = Parts(e)[k] /\ q.actual = Parts(a)[k]
      OBVIOUS
    <3> HIDE DEF q
    <3> QED
      BY <3>1, <3>2
  <2> QED
    BY <2>2, <2>3
<1>4. CASE e.kind = "array"
  <2>1. /\ e = [kind |-> "array", items |-> e.items] /\ a = [kind |-> "array", items |-> a.items]
        /\ e.items \in Seq({e.items[i] : i \in DOMAIN e.items})
        /\ a.items \in Seq({a.items[i] : i \in DOMAIN a.items})
    BY <1>1, <1>4 DEF Shaped
  <2>2. DOMAIN e.items = DOMAIN a.items /\ \A k \in DOMAIN e.items : e.items[k] = a.items[k]
    BY <1>1, <1>3, <1>4, PartsOf
  <2>3. e.items = a.items
    BY <2>1, <2>2
  <2> QED
    BY <2>1, <2>3
<1>5. CASE e.kind = "object"
  <2>1. /\ e = [kind |-> "object", fields |-> e.fields] /\ a = [kind |-> "object", fields |-> a.fields]
        /\ e.fields = [k \in DOMAIN e.fields |-> e.fields[k]]
        /\ a.fields = [k \in DOMAIN a.fields |-> a.fields[k]]
    BY <1>1, <1>5 DEF Shaped
  <2>2. DOMAIN e.fields = DOMAIN a.fields /\ \A k \in DOMAIN e.fields : e.fields[k] = a.fields[k]
    BY <1>1, <1>3, <1>5, PartsOf
  <2>3. e.fields = a.fields
    BY <2>1, <2>2
  <2> QED
    BY <2>1, <2>3
<1> QED
  BY <1>2, <1>4, <1>5

\* Equal values differ nowhere.
LEMMA SameAgrees ==
  ASSUME NEW p, p.expected = p.actual
  PROVE  DiffHere(p) = {} /\ \A q \in Within(p) : q.expected = q.actual
BY DEF DiffHere, Missing, Extra, Within

\* The parts of a value are finitely many.
LEMMA PartsFinite == ASSUME NEW v, Shaped(v) PROVE IsFiniteSet(DOMAIN Parts(v))
<1>1. CASE v.kind = "array"
  <2>1. DOMAIN v.items = 1 .. Len(v.items) /\ Len(v.items) \in Nat
    BY <1>1 DEF Shaped
  <2> QED
    BY <1>1, <2>1, PartsOf, FS_Interval
<1>2. CASE v.kind = "object"
  BY <1>2, PartsOf DEF Shaped
<1>3. CASE v.kind \notin {"array", "object"}
  <2>1. DOMAIN Parts(v) = {}
    BY <1>3, PartsOf
  <2> QED
    BY <2>1, FS_EmptySet
<1> QED
  BY <1>1, <1>2, <1>3

LEMMA ImageFinite ==
  ASSUME NEW S, IsFiniteSet(S), NEW g, g = [x \in S |-> g[x]]
  PROVE  IsFiniteSet({g[x] : x \in S})
<1> DEFINE T == {g[x] : x \in S}
<1>1. g \in Surjection(S, T)
  BY DEF Surjection
<1> QED
  BY <1>1, FS_Surjection

LEMMA UnionFinite ==
  ASSUME NEW F, IsFiniteSet(F), \A S \in F : IsFiniteSet(S)
  PROVE  IsFiniteSet(UNION F)
<1> DEFINE Q(n) == \A G \in SUBSET F : Cardinality(G) = n => IsFiniteSet(UNION G)
           T == {n \in Nat : Q(n)}
<1>1. Q(0)
  <2>1. ASSUME NEW G \in SUBSET F, Cardinality(G) = 0 PROVE IsFiniteSet(UNION G)
    <3>1. IsFiniteSet(G)
      BY FS_Subset
    <3>2. G = {}
      BY <2>1, <3>1, FS_EmptySet
    <3>3. UNION G = {}
      BY <3>2
    <3> QED
      BY <3>3, FS_EmptySet
  <2> QED
    BY <2>1
<1>2. ASSUME NEW n \in Nat, Q(n) PROVE Q(n + 1)
  <2>1. ASSUME NEW G \in SUBSET F, Cardinality(G) = n + 1 PROVE IsFiniteSet(UNION G)
    <3> HIDE DEF Q
    <3>1. IsFiniteSet(G)
      BY FS_Subset
    <3>2. G # {}
      <4>1. n + 1 # 0
        OBVIOUS
      <4> QED
        BY <2>1, <4>1, FS_EmptySet
    <3>3. PICK S \in G : TRUE
      BY <3>2
    <3>4. IsFiniteSet(G \ {S}) /\ Cardinality(G \ {S}) = Cardinality(G) - 1
      BY <3>1, <3>3, FS_RemoveElement
    <3>5. G \ {S} \in SUBSET F /\ Cardinality(G \ {S}) = n
      BY <2>1, <3>4
    <3>6. IsFiniteSet(UNION (G \ {S}))
      BY <1>2, <3>5 DEF Q
    <3>7. UNION G = (UNION (G \ {S})) \cup S
      BY <3>3
    <3>8. IsFiniteSet(S)
      BY <3>3
    <3>9. IsFiniteSet((UNION (G \ {S})) \cup S)
      BY <3>6, <3>8, FS_Union
    <3> QED
      BY <3>7, <3>9
  <2> QED
    BY <2>1
<1> HIDE DEF Q
<1>3. Nat \subseteq T
  <2>1. 0 \in T
    BY <1>1
  <2>2. \A n \in Nat : n \in T => n + 1 \in T
    BY <1>2
  <2> HIDE DEF T
  <2> QED
    BY <2>1, <2>2, Induct
<1>4. Cardinality(F) \in Nat
  BY FS_CardinalityType
<1> QED
  BY <1>3, <1>4 DEF Q

\* Finitely many finite sets, one for each member of S.
LEMMA GatheredFinite ==
  ASSUME NEW S, IsFiniteSet(S), NEW g, g = [x \in S |-> g[x]], \A x \in S : IsFiniteSet(g[x])
  PROVE  IsFiniteSet(UNION {g[x] : x \in S})
<1> DEFINE F == {g[x] : x \in S}
<1>1. IsFiniteSet(F)
  BY ImageFinite
<1>2. \A X \in F : IsFiniteSet(X)
  OBVIOUS
<1> HIDE DEF F
<1>3. IsFiniteSet(UNION F)
  BY <1>1, <1>2, UnionFinite
<1> QED
  BY <1>3 DEF F

\* Where two values differ is in finitely many places, one step down or here.
LEMMA PairFinite ==
  ASSUME NEW p, Shaped(p.expected), Shaped(p.actual)
  PROVE  IsFiniteSet(DiffHere(p)) /\ IsFiniteSet(Within(p))
<1> DEFINE e == DOMAIN Parts(p.expected)
           a == DOMAIN Parts(p.actual)
           lost == [k \in e \ a |-> Change(Append(p.path, Step(p.expected.kind, k)), "missing")]
           more == [k \in a \ e |-> Change(Append(p.path, Step(p.actual.kind, k)), "extra")]
           both == [k \in e \cap a |-> [path |-> Append(p.path, Step(p.expected.kind, k)),
                       expected |-> Parts(p.expected)[k], actual |-> Parts(p.actual)[k]]]
<1>1. IsFiniteSet(e) /\ IsFiniteSet(a)
  BY PartsFinite
<1>2. IsFiniteSet(e \ a) /\ IsFiniteSet(a \ e) /\ IsFiniteSet(e \cap a)
  BY <1>1, FS_Subset
<1>3. IsFiniteSet(Missing(p, e, a))
  <2>1. Missing(p, e, a) = {lost[k] : k \in e \ a} /\ lost = [k \in e \ a |-> lost[k]]
    BY DEF Missing
  <2> HIDE DEF e, a, lost
  <2> QED
    BY <1>2, <2>1, ImageFinite
<1>4. IsFiniteSet(Extra(p, e, a))
  <2>1. Extra(p, e, a) = {more[k] : k \in a \ e} /\ more = [k \in a \ e |-> more[k]]
    BY DEF Extra
  <2> HIDE DEF e, a, more
  <2> QED
    BY <1>2, <2>1, ImageFinite
<1>5. IsFiniteSet(DiffHere(p))
  <2>1. \/ DiffHere(p) = {}
        \/ \E c : DiffHere(p) = {c}
        \/ DiffHere(p) = Missing(p, e, a) \cup Extra(p, e, a)
    BY DEF DiffHere
  <2>2. IsFiniteSet(Missing(p, e, a) \cup Extra(p, e, a))
    BY <1>3, <1>4, FS_Union
  <2>3. \A c : IsFiniteSet({c})
    BY FS_Singleton
  <2>4. IsFiniteSet({})
    BY FS_EmptySet
  <2> HIDE DEF e, a
  <2> QED
    BY <2>1, <2>2, <2>3, <2>4
<1>6. IsFiniteSet(Within(p))
  <2>1. Within(p) = {} \/ Within(p) = {both[k] : k \in e \cap a}
    BY DEF Within
  <2>2. IsFiniteSet({both[k] : k \in e \cap a})
    <3>1. both = [k \in e \cap a |-> both[k]]
      OBVIOUS
    <3> HIDE DEF e, a, both
    <3> QED
      BY <1>2, <3>1, ImageFinite
  <2> QED
    BY <2>1, <2>2, FS_EmptySet
<1> QED
  BY <1>5, <1>6

\* A value is paired with itself at every level of PairsBelow(v, v, ...).
LEMMA PairedWithItself ==
  ASSUME NEW v, NEW n \in 0 .. MaxDepth, NEW q \in PairsBelow(v, v, <<>>)[n]
  PROVE  q.actual = q.expected
<1> DEFINE f == PairsBelow(v, v, <<>>)
           T == {m \in Nat : m <= MaxDepth => \A p \in f[m] : p.actual = p.expected}
<1>1. Levelled(f, [path |-> <<>>, expected |-> v, actual |-> v]) /\ MaxDepth \in Nat
  BY PairsLevelled, ReadingsAssumption
<1> HIDE DEF f
<1>2. 0 \in T
  BY <1>1 DEF Levelled
<1>3. ASSUME NEW m \in Nat, m \in T PROVE m + 1 \in T
  <2>1. ASSUME m + 1 <= MaxDepth, NEW p \in f[m + 1] PROVE p.actual = p.expected
    <3>1. m < MaxDepth /\ m <= MaxDepth
      BY <1>1, <2>1
    <3>2. PICK r \in f[m] : p \in Within(r)
      BY <1>1, <2>1, <3>1 DEF Levelled
    <3>3. r.actual = r.expected
      BY <1>3, <3>1
    <3> QED
      BY <3>2, <3>3 DEF Within
  <2> QED
    BY <2>1
<1>4. Nat \subseteq T
  <2> HIDE DEF T
  <2> QED
    BY <1>2, <1>3, Induct
<1> QED
  BY <1>1, <1>4 DEF f

\* Both sides of a pair are parts of the values the comparison began with.
LEMMA PairSides ==
  ASSUME NEW e, NEW a, NEW base, NEW n \in 0 .. MaxDepth, NEW p \in PairsBelow(e, a, base)[n]
  PROVE  /\ \E q \in PairsBelow(e, e, <<>>)[n] : q.expected = p.expected
         /\ \E q \in PairsBelow(a, a, <<>>)[n] : q.expected = p.actual
<1> DEFINE f == PairsBelow(e, a, base)
           E == PairsBelow(e, e, <<>>)
           A == PairsBelow(a, a, <<>>)
           Found(r, m) == /\ \E q \in E[m] : q.expected = r.expected
                          /\ \E q \in A[m] : q.expected = r.actual
           T == {m \in Nat : m <= MaxDepth => \A r \in f[m] : Found(r, m)}
<1>1. /\ Levelled(f, [path |-> base, expected |-> e, actual |-> a])
      /\ Levelled(E, [path |-> <<>>, expected |-> e, actual |-> e])
      /\ Levelled(A, [path |-> <<>>, expected |-> a, actual |-> a])
      /\ MaxDepth \in Nat
  BY PairsLevelled, ReadingsAssumption
<1>2. \A m \in 0 .. MaxDepth : /\ \A q \in E[m] : q.actual = q.expected
                               /\ \A q \in A[m] : q.actual = q.expected
  BY PairedWithItself
<1> HIDE DEF f, E, A
<1>3. 0 \in T
  <2>1. \A r \in f[0] : r.expected = e /\ r.actual = a
    BY <1>1 DEF Levelled
  <2> DEFINE x == [path |-> <<>>, expected |-> e, actual |-> e]
             y == [path |-> <<>>, expected |-> a, actual |-> a]
  <2>2. x \in E[0] /\ y \in A[0]
    BY <1>1 DEF Levelled
  <2>3. x.expected = e /\ y.expected = a
    OBVIOUS
  <2> HIDE DEF x, y
  <2>4. \A r \in f[0] : Found(r, 0)
    BY <2>1, <2>2, <2>3
  <2> HIDE DEF Found
  <2> QED
    BY <2>4
<1>4. ASSUME NEW m \in Nat, m \in T PROVE m + 1 \in T
  <2>1. ASSUME m + 1 <= MaxDepth, NEW r \in f[m + 1] PROVE Found(r, m + 1)
    <3>1. m < MaxDepth /\ m <= MaxDepth /\ m \in 0 .. MaxDepth
      BY <1>1, <2>1
    <3>2. PICK s \in f[m] : r \in Within(s)
      BY <1>1, <2>1, <3>1 DEF Levelled
    <3>3. PICK x \in E[m], y \in A[m] : x.expected = s.expected /\ y.expected = s.actual
      BY <1>4, <3>1
    <3>4. x.actual = s.expected /\ y.actual = s.actual
      BY <1>2, <3>1, <3>3
    <3>5. PICK k \in DOMAIN Parts(s.expected) \cap DOMAIN Parts(s.actual) :
             r.expected = Parts(s.expected)[k] /\ r.actual = Parts(s.actual)[k]
      BY <3>2 DEF Within
    <3> DEFINE u == [path |-> Append(x.path, Step(x.expected.kind, k)),
                     expected |-> Parts(x.expected)[k], actual |-> Parts(x.actual)[k]]
               w == [path |-> Append(y.path, Step(y.expected.kind, k)),
                     expected |-> Parts(y.expected)[k], actual |-> Parts(y.actual)[k]]
    <3>6. u \in Within(x) /\ w \in Within(y)
      BY <3>3, <3>4, <3>5 DEF Within
    <3>7. u.expected = r.expected /\ w.expected = r.actual
      BY <3>3, <3>5
    <3> HIDE DEF u, w
    <3>8. u \in E[m + 1] /\ w \in A[m + 1]
      BY <1>1, <3>1, <3>6 DEF Levelled
    <3> QED
      BY <3>7, <3>8
  <2> QED
    BY <2>1
<1>5. Nat \subseteq T
  <2> HIDE DEF T
  <2> QED
    BY <1>3, <1>4, Induct
<1>6. n \in Nat /\ n <= MaxDepth
  BY <1>1
<1> QED
  BY <1>5, <1>6 DEF f, E, A

LEMMA JsonPairs ==
  ASSUME NEW e, NEW a, NEW base, IsJson(e), IsJson(a),
         NEW n \in 0 .. MaxDepth, NEW p \in PairsBelow(e, a, base)[n]
  PROVE  /\ Shaped(p.expected) /\ Shaped(p.actual)
         /\ n = MaxDepth => DOMAIN Parts(p.expected) = {} /\ DOMAIN Parts(p.actual) = {}
BY PairSides DEF IsJson

\* diffJson finds nothing exactly when the values are equal, and finitely many
\* places otherwise.
LEMMA DiffAgrees ==
  ASSUME NEW e, NEW a, NEW base, IsJson(e), IsJson(a)
  PROVE  DiffJson(e, a, base) = {} <=> e = a
<1> DEFINE f == PairsBelow(e, a, base)
           top == [path |-> base, expected |-> e, actual |-> a]
<1>1. Levelled(f, top) /\ MaxDepth \in Nat
  BY PairsLevelled, ReadingsAssumption
<1>2. \A n \in 0 .. MaxDepth : \A p \in f[n] :
        /\ Shaped(p.expected) /\ Shaped(p.actual)
        /\ n = MaxDepth => DOMAIN Parts(p.expected) = {} /\ DOMAIN Parts(p.actual) = {}
  BY JsonPairs
<1>3. DiffJson(e, a, base) = UNION {UNION {DiffHere(p) : p \in f[n]} : n \in 0 .. MaxDepth}
  BY DEF DiffJson
<1> HIDE DEF f
<1>4. top \in f[0] /\ 0 \in 0 .. MaxDepth /\ top.expected = e /\ top.actual = a
  BY <1>1 DEF Levelled
<1>5. DiffJson(e, a, base) = {} <=> \A n \in 0 .. MaxDepth : \A p \in f[n] : DiffHere(p) = {}
  BY <1>3
<1>6. ASSUME e = a, NEW n \in 0 .. MaxDepth, NEW p \in f[n] PROVE DiffHere(p) = {}
  <2> DEFINE T == {m \in Nat : m <= MaxDepth => \A q \in f[m] : q.expected = q.actual}
  <2>1. 0 \in T
    BY <1>1, <1>6 DEF Levelled
  <2>2. ASSUME NEW m \in Nat, m \in T PROVE m + 1 \in T
    <3>1. ASSUME m + 1 <= MaxDepth, NEW q \in f[m + 1] PROVE q.expected = q.actual
      <4>1. m < MaxDepth /\ m <= MaxDepth
        BY <1>1, <3>1
      <4>2. PICK r \in f[m] : q \in Within(r)
        BY <1>1, <3>1, <4>1 DEF Levelled
      <4>3. r.expected = r.actual
        BY <2>2, <4>1
      <4> QED
        BY <4>2, <4>3, SameAgrees
    <3> QED
      BY <3>1
  <2>3. Nat \subseteq T
    <3> HIDE DEF T
    <3> QED
      BY <2>1, <2>2, Induct
  <2>4. n \in Nat /\ n <= MaxDepth
    BY <1>1
  <2>5. p.expected = p.actual
    BY <2>3, <2>4
  <2> QED
    BY <2>5, SameAgrees
<1>7. ASSUME \A n \in 0 .. MaxDepth : \A p \in f[n] : DiffHere(p) = {} PROVE e = a
  <2> DEFINE T == {m \in Nat : m <= MaxDepth => \A q \in f[MaxDepth - m] : q.expected = q.actual}
  <2>1. 0 \in T
    <3>1. MaxDepth \in 0 .. MaxDepth /\ MaxDepth - 0 = MaxDepth
      BY <1>1
    <3>2. ASSUME NEW q \in f[MaxDepth] PROVE q.expected = q.actual
      <4>1. /\ Shaped(q.expected) /\ Shaped(q.actual) /\ DiffHere(q) = {}
            /\ DOMAIN Parts(q.expected) = {}
        BY <1>2, <1>7, <3>1
      <4>2. Within(q) = {}
        BY <4>1 DEF Within
      <4> QED
        BY <4>1, <4>2, PairAgrees
    <3> QED
      BY <3>1, <3>2
  <2>2. ASSUME NEW m \in Nat, m \in T PROVE m + 1 \in T
    <3>1. ASSUME m + 1 <= MaxDepth, NEW q \in f[MaxDepth - (m + 1)] PROVE q.expected = q.actual
      <4> DEFINE k == MaxDepth - (m + 1)
      <4>1. k \in Nat /\ k \in 0 .. MaxDepth /\ k < MaxDepth /\ k + 1 = MaxDepth - m /\ m <= MaxDepth
        BY <1>1, <3>1
      <4>2. q \in f[k]
        BY <3>1
      <4> HIDE DEF k
      <4>3. Within(q) \subseteq f[k + 1]
        BY <1>1, <4>1, <4>2 DEF Levelled
      <4>4. \A r \in Within(q) : r.expected = r.actual
        BY <2>2, <4>1, <4>3
      <4>5. Shaped(q.expected) /\ Shaped(q.actual) /\ DiffHere(q) = {}
        BY <1>2, <1>7, <4>1, <4>2
      <4> QED
        BY <4>4, <4>5, PairAgrees
    <3> QED
      BY <3>1
  <2>3. Nat \subseteq T
    <3> HIDE DEF T
    <3> QED
      BY <2>1, <2>2, Induct
  <2>4. MaxDepth \in T /\ MaxDepth - MaxDepth = 0
    BY <1>1, <2>3
  <2> QED
    BY <1>1, <1>4, <2>4
<1> QED
  BY <1>5, <1>6, <1>7

LEMMA DiffFinite ==
  ASSUME NEW e, NEW a, NEW base, IsJson(e), IsJson(a)
  PROVE  IsFiniteSet(DiffJson(e, a, base))
<1> DEFINE f == PairsBelow(e, a, base)
           found == [n \in 0 .. MaxDepth |-> UNION {DiffHere(p) : p \in f[n]}]
           T == {m \in Nat : m <= MaxDepth => IsFiniteSet(f[m])}
<1>1. Levelled(f, [path |-> base, expected |-> e, actual |-> a]) /\ MaxDepth \in Nat
  BY PairsLevelled, ReadingsAssumption
<1>2. \A n \in 0 .. MaxDepth : \A p \in f[n] : IsFiniteSet(DiffHere(p)) /\ IsFiniteSet(Within(p))
  BY JsonPairs, PairFinite
<1>3. DiffJson(e, a, base) = UNION {found[n] : n \in 0 .. MaxDepth}
  BY DEF DiffJson
<1> HIDE DEF f
<1>5. 0 \in T
  <2>1. \A x : IsFiniteSet({x})
    BY FS_Singleton
  <2>2. IsFiniteSet(f[0])
    BY <1>1, <2>1 DEF Levelled
  <2> QED
    BY <2>2
<1>6. ASSUME NEW m \in Nat, m \in T PROVE m + 1 \in T
  <2>1. ASSUME m + 1 <= MaxDepth PROVE IsFiniteSet(f[m + 1])
    <3> DEFINE g == [p \in f[m] |-> Within(p)]
    <3>1. m < MaxDepth /\ m <= MaxDepth /\ m \in 0 .. MaxDepth
      BY <1>1, <2>1
    <3>2. f[m + 1] = UNION {g[p] : p \in f[m]}
      <4>1. f[m + 1] = UNION {Within(p) : p \in f[m]}
        BY <1>1, <3>1 DEF Levelled
      <4> QED
        BY <4>1
    <3>3. IsFiniteSet(f[m])
      BY <1>6, <3>1
    <3>4. \A p \in f[m] : IsFiniteSet(g[p])
      BY <1>2, <3>1
    <3>5. g = [p \in f[m] |-> g[p]]
      OBVIOUS
    <3> HIDE DEF g
    <3> QED
      BY GatheredFinite, <3>2, <3>3, <3>4, <3>5
  <2> QED
    BY <2>1
<1>7. Nat \subseteq T
  <2> HIDE DEF T
  <2> QED
    BY <1>5, <1>6, Induct
<1>8. ASSUME NEW n \in 0 .. MaxDepth PROVE IsFiniteSet(found[n])
  <2> DEFINE g == [p \in f[n] |-> DiffHere(p)]
  <2>1. IsFiniteSet(f[n])
    BY <1>1, <1>7
  <2>2. \A p \in f[n] : IsFiniteSet(g[p])
    BY <1>2
  <2>3. g = [p \in f[n] |-> g[p]]
    OBVIOUS
  <2>4. found[n] = UNION {g[p] : p \in f[n]}
    OBVIOUS
  <2> HIDE DEF g, found
  <2> QED
    BY GatheredFinite, <2>1, <2>2, <2>3, <2>4
<1> DEFINE S == 0 .. MaxDepth
<1>9. found = [n \in S |-> found[n]] /\ IsFiniteSet(S)
  BY <1>1, FS_Interval
<1>10. \A n \in S : IsFiniteSet(found[n])
  BY <1>8
<1> HIDE DEF found, S
<1>11. IsFiniteSet(UNION {found[n] : n \in S})
  BY <1>9, <1>10, GatheredFinite
<1> QED
  BY <1>3, <1>11 DEF S

------------------------------------------------------------------------------
(* parism test.                                                            *)

SpanList(s) == [kind |-> "array", items |-> s]

\* Evidence nests two deep: a list, spans, what a span says.
LEMMA SpansAreJson == ASSUME NEW s, AreSpans(s) PROVE IsJson(SpanList(s))
<1> DEFINE v == SpanList(s)
           f == PairsBelow(v, v, <<>>)
           Flat(w) == Shaped(w) /\ DOMAIN Parts(w) = {}
           T == {m \in Nat : m + 2 <= MaxDepth => \A p \in f[m + 2] : Flat(p.expected)}
<1>1. Levelled(f, [path |-> <<>>, expected |-> v, actual |-> v]) /\ MaxDepth \in Nat /\ MaxDepth >= 2
  BY PairsLevelled, ReadingsAssumption
<1> HIDE DEF f
<1>2. v.kind = "array" /\ v.items = s /\ Parts(v) = s
  BY PartsOf DEF SpanList
<1>3. \A p \in f[0] : p.expected = v
  BY <1>1 DEF Levelled
<1>4. \A p \in f[1] : \E i \in DOMAIN s : p.expected = s[i]
  <2>1. f[0 + 1] = UNION {Within(p) : p \in f[0]}
    BY <1>1 DEF Levelled
  <2>2. \A p \in f[0] : \A q \in Within(p) : \E i \in DOMAIN s : q.expected = s[i]
    BY <1>2, <1>3 DEF Within
  <2> QED
    BY <2>1, <2>2
<1>5. \A p \in f[2] : Flat(p.expected)
  <2>1. f[1 + 1] = UNION {Within(p) : p \in f[1]}
    BY <1>1 DEF Levelled
  <2>2. ASSUME NEW p \in f[1], NEW q \in Within(p) PROVE Flat(q.expected)
    <3>1. PICK i \in DOMAIN s : p.expected = s[i]
      BY <1>4
    <3>2. /\ Parts(p.expected) = s[i].fields
          /\ \A k \in DOMAIN s[i].fields : Flat(s[i].fields[k])
      BY <3>1, PartsOf DEF AreSpans
    <3> QED
      BY <3>2 DEF Within
  <2> QED
    BY <2>1, <2>2
<1>6. 0 \in T
  BY <1>5
<1>7. ASSUME NEW m \in Nat, m \in T PROVE m + 1 \in T
  <2>1. ASSUME (m + 1) + 2 <= MaxDepth PROVE f[(m + 1) + 2] = {}
    <3>1. m + 2 \in Nat /\ m + 2 < MaxDepth /\ m + 2 <= MaxDepth /\ (m + 2) + 1 = (m + 1) + 2
      BY <1>1, <2>1
    <3>2. f[(m + 2) + 1] = UNION {Within(p) : p \in f[m + 2]}
      BY <1>1, <3>1 DEF Levelled
    <3>3. \A p \in f[m + 2] : Within(p) = {}
      BY <1>7, <3>1 DEF Within
    <3> QED
      BY <3>1, <3>2, <3>3
  <2> QED
    BY <2>1
<1>8. Nat \subseteq T
  <2> HIDE DEF T
  <2> QED
    BY <1>6, <1>7, Induct
<1>9. ASSUME NEW n \in 0 .. MaxDepth, NEW p \in f[n]
      PROVE  Shaped(p.expected) /\ (n = MaxDepth => DOMAIN Parts(p.expected) = {})
  <2>1. CASE n = 0
    <3>1. Shaped(v)
      BY <1>2 DEF Shaped, AreSpans, SpanList
    <3> QED
      BY <1>1, <1>3, <2>1, <3>1
  <2>2. CASE n = 1
    BY <1>1, <1>4, <2>2 DEF AreSpans
  <2>3. CASE n >= 2
    <3>1. n - 2 \in Nat /\ (n - 2) + 2 = n /\ n <= MaxDepth
      BY <1>1, <2>3
    <3> QED
      BY <1>8, <3>1
  <2> QED
    BY <1>1, <2>1, <2>2, <2>3
<1> QED
  BY <1>9 DEF IsJson, f

\* Of the actual spans only what the expected ones name is compared.
Named(a, t) == [kind |-> "object", fields |->
                  [k \in DOMAIN t.fields |-> IF k \in DOMAIN a.fields THEN a.fields[k] ELSE Undefined]]

LEMMA PickedAreSpans ==
  ASSUME NEW got, NEW want, AreSpans(got), AreSpans(want)
  PROVE  \E s : /\ PickFields(got, want) = SpanList(s) /\ AreSpans(s)
                /\ DOMAIN s = DOMAIN got /\ Len(s) = Len(got)
                /\ \A i \in DOMAIN got :
                      s[i] = IF i \in DOMAIN want THEN Named(got[i], want[i]) ELSE got[i]
<1> DEFINE s == [i \in DOMAIN got |-> IF i \in DOMAIN want THEN Named(got[i], want[i]) ELSE got[i]]
<1>1. PickFields(got, want) = SpanList(s)
  BY DEF PickFields, SpanList, Named
<1>2. DOMAIN got = 1 .. Len(got) /\ Len(got) \in Nat
  BY DEF AreSpans
<1>3. s \in Seq({s[i] : i \in DOMAIN s}) /\ Len(s) = Len(got)
  BY <1>2
<1>4. Shaped(Undefined) /\ DOMAIN Parts(Undefined) = {}
  <2>1. Undefined.kind = "undefined" /\ Undefined.v = ""
    BY DEF Undefined
  <2>2. Parts(Undefined) = << >>
    BY <2>1, PartsOf
  <2>3. Shaped(Undefined)
    BY <2>1 DEF Shaped, Undefined
  <2> QED
    BY <2>2, <2>3
<1>5. ASSUME NEW i \in DOMAIN got
      PROVE  /\ s[i].kind = "object" /\ Shaped(s[i])
             /\ \A k \in DOMAIN s[i].fields : Shaped(s[i].fields[k]) /\ DOMAIN Parts(s[i].fields[k]) = {}
  <2>1. CASE i \notin DOMAIN want
    BY <2>1 DEF AreSpans
  <2>2. CASE i \in DOMAIN want
    <3>1. s[i] = Named(got[i], want[i])
      BY <2>2
    <3>2. IsFiniteSet(DOMAIN want[i].fields)
      BY <2>2 DEF AreSpans, Shaped
    <3>3. \A k \in DOMAIN got[i].fields :
             Shaped(got[i].fields[k]) /\ DOMAIN Parts(got[i].fields[k]) = {}
      BY DEF AreSpans
    <3>4. /\ s[i].kind = "object" /\ s[i] = [kind |-> "object", fields |-> s[i].fields]
          /\ s[i].fields = [k \in DOMAIN want[i].fields |->
                               IF k \in DOMAIN got[i].fields THEN got[i].fields[k] ELSE Undefined]
      BY <3>1 DEF Named
    <3> HIDE DEF s
    <3>5. Shaped(s[i])
      BY <3>2, <3>4 DEF Shaped
    <3>6. ASSUME NEW k \in DOMAIN s[i].fields
          PROVE  Shaped(s[i].fields[k]) /\ DOMAIN Parts(s[i].fields[k]) = {}
      BY <1>4, <3>3, <3>4
    <3> QED
      BY <3>4, <3>5, <3>6
  <2> QED
    BY <2>1, <2>2
<1>6. DOMAIN s = DOMAIN got
  OBVIOUS
<1>7. AreSpans(s)
  <2> HIDE DEF s
  <2> QED
    BY <1>3, <1>5, <1>6 DEF AreSpans
<1>8. \A i \in DOMAIN got : s[i] = IF i \in DOMAIN want THEN Named(got[i], want[i]) ELSE got[i]
  OBVIOUS
<1> HIDE DEF s
<1> QED
  BY <1>1, <1>3, <1>6, <1>7, <1>8

SameSpans(want, got) ==
  /\ Len(got) = Len(want)
  /\ \A i \in DOMAIN want : \A k \in DOMAIN want[i].fields :
       k \in DOMAIN got[i].fields /\ got[i].fields[k] = want[i].fields[k]

LEMMA SpansAgree ==
  ASSUME NEW want, NEW got, AreSpans(want), AreSpans(got), NEW base,
         \A i \in DOMAIN want : \A k \in DOMAIN want[i].fields : want[i].fields[k] # Undefined
  PROVE  /\ DiffJson(SpanList(want), PickFields(got, want), base) = {} <=> SameSpans(want, got)
         /\ IsFiniteSet(DiffJson(SpanList(want), PickFields(got, want), base))
<1>1. PICK s : /\ PickFields(got, want) = SpanList(s) /\ AreSpans(s)
               /\ DOMAIN s = DOMAIN got /\ Len(s) = Len(got)
               /\ \A i \in DOMAIN got :
                     s[i] = IF i \in DOMAIN want THEN Named(got[i], want[i]) ELSE got[i]
  BY PickedAreSpans
<1>2. IsJson(SpanList(want)) /\ IsJson(SpanList(s))
  BY <1>1, SpansAreJson
<1>3. SpanList(want) = SpanList(s) <=> want = s
  BY DEF SpanList
<1>4. /\ DOMAIN want = 1 .. Len(want) /\ Len(want) \in Nat
      /\ DOMAIN got = 1 .. Len(got) /\ Len(got) \in Nat
      /\ want \in Seq({want[i] : i \in DOMAIN want}) /\ s \in Seq({s[i] : i \in DOMAIN s})
  BY <1>1 DEF AreSpans
<1>5. ASSUME NEW i \in DOMAIN want, i \in DOMAIN got
      PROVE  want[i] = s[i] <=> \A k \in DOMAIN want[i].fields :
                k \in DOMAIN got[i].fields /\ got[i].fields[k] = want[i].fields[k]
  <2> DEFINE w == want[i].fields
             g == got[i].fields
             n == [k \in DOMAIN w |-> IF k \in DOMAIN g THEN g[k] ELSE Undefined]
  <2>1. s[i] = [kind |-> "object", fields |-> n]
    BY <1>1, <1>5 DEF Named
  <2>2. want[i] = [kind |-> "object", fields |-> w] /\ w = [k \in DOMAIN w |-> w[k]]
    BY DEF AreSpans, Shaped
  <2>3. \A k \in DOMAIN w : w[k] # Undefined
    OBVIOUS
  <2> HIDE DEF w, g
  <2>4. want[i] = s[i] <=> w = n
    BY <2>1, <2>2
  <2>5. w = n <=> \A k \in DOMAIN w : w[k] = n[k]
    BY <2>2
  <2> QED
    BY <2>3, <2>4, <2>5 DEF w, g
<1>6. want = s <=> SameSpans(want, got)
  <2>1. ASSUME want = s PROVE SameSpans(want, got)
    BY <1>1, <1>4, <1>5, <2>1 DEF SameSpans
  <2>2. ASSUME SameSpans(want, got) PROVE want = s
    <3>1. Len(want) = Len(s) /\ \A i \in 1 .. Len(want) : want[i] = s[i]
      BY <1>1, <1>4, <1>5, <2>2 DEF SameSpans
    <3>2. DOMAIN want = DOMAIN s
      BY <1>1, <1>4, <3>1
    <3>3. \A i \in DOMAIN want : want[i] = s[i]
      BY <1>4, <3>1
    <3>4. want = [i \in DOMAIN want |-> want[i]] /\ s = [i \in DOMAIN s |-> s[i]]
      BY <1>4
    <3> QED
      BY <3>2, <3>3, <3>4
  <2> QED
    BY <2>1, <2>2
<1> QED
  BY <1>1, <1>2, <1>3, <1>6, DiffAgrees, DiffFinite

\* Nothing differs in the evidence exactly when each expected pointer is there
\* with the same spans and, where the list is exhaustive, no other one is.
EvidenceAgrees(expected, evidence) ==
  /\ DOMAIN expected.evidence \subseteq DOMAIN evidence
  /\ \A p \in DOMAIN expected.evidence : SameSpans(expected.evidence[p], evidence[p])
  /\ expected.exhaustive => DOMAIN expected.evidence = DOMAIN evidence

LEMMA EvidenceCompared ==
  ASSUME NEW expected, NEW evidence, AreEvidence(expected.evidence), AreEvidence(evidence),
         expected.exhaustive \in BOOLEAN
  PROVE  /\ EvidenceChanges(expected, evidence) = {} <=> EvidenceAgrees(expected, evidence)
         /\ IsFiniteSet(EvidenceChanges(expected, evidence))
<1> DEFINE want == expected.evidence
           named == DOMAIN want
           at(p) == <<Key("evidence"), Key(p)>>
           lost == [p \in named \ DOMAIN evidence |-> Change(at(p), "missing")]
           more == [p \in DOMAIN evidence \ named |-> Change(at(p), "extra")]
           both == [p \in named \cap DOMAIN evidence |->
                      DiffJson(SpanList(want[p]), PickFields(evidence[p], want[p]), at(p))]
           Lost == {lost[p] : p \in named \ DOMAIN evidence}
           More == {more[p] : p \in DOMAIN evidence \ named}
           Both == {both[p] : p \in named \cap DOMAIN evidence}
           Compared == UNION Both
           Also == IF expected.exhaustive THEN More ELSE {}
<1>1. EvidenceChanges(expected, evidence) = (Lost \cup Compared) \cup Also
  BY DEF EvidenceChanges, SpanList
<1>2. IsFiniteSet(named) /\ IsFiniteSet(DOMAIN evidence)
  BY DEF AreEvidence
<1>3. /\ IsFiniteSet(named \ DOMAIN evidence) /\ IsFiniteSet(DOMAIN evidence \ named)
      /\ IsFiniteSet(named \cap DOMAIN evidence)
  BY <1>2, FS_Subset
<1>4. /\ lost = [p \in named \ DOMAIN evidence |-> lost[p]]
      /\ more = [p \in DOMAIN evidence \ named |-> more[p]]
      /\ both = [p \in named \cap DOMAIN evidence |-> both[p]]
  OBVIOUS
<1>5. ASSUME NEW p \in named \cap DOMAIN evidence
      PROVE  (both[p] = {} <=> SameSpans(want[p], evidence[p])) /\ IsFiniteSet(both[p])
  <2>1. /\ AreSpans(want[p]) /\ AreSpans(evidence[p])
        /\ \A i \in DOMAIN want[p] : \A k \in DOMAIN want[p][i].fields :
             want[p][i].fields[k] # Undefined
    BY <1>5 DEF AreEvidence
  <2>2. both[p] = DiffJson(SpanList(want[p]), PickFields(evidence[p], want[p]), at(p))
    OBVIOUS
  <2> HIDE DEF want, both, at
  <2> QED
    BY <2>1, <2>2, SpansAgree
<1> HIDE DEF lost, more, both, named
<1>6. IsFiniteSet(Lost) /\ IsFiniteSet(More)
  BY <1>3, <1>4, ImageFinite
<1>7. IsFiniteSet(Compared)
  BY <1>3, <1>4, <1>5, GatheredFinite
<1>8. Lost = {} <=> named \subseteq DOMAIN evidence
  OBVIOUS
<1>9. More = {} <=> DOMAIN evidence \subseteq named
  OBVIOUS
<1>10. Compared = {} <=> \A p \in named \cap DOMAIN evidence : SameSpans(want[p], evidence[p])
  <2>1. Compared = {} <=> \A p \in named \cap DOMAIN evidence : both[p] = {}
    OBVIOUS
  <2> QED
    BY <1>5, <2>1
<1>11. EvidenceAgrees(expected, evidence) <=>
         /\ named \subseteq DOMAIN evidence
         /\ \A p \in named : SameSpans(want[p], evidence[p])
         /\ expected.exhaustive => named = DOMAIN evidence
  BY DEF EvidenceAgrees, named
<1> HIDE DEF Lost, More, Compared, want
<1>12. EvidenceChanges(expected, evidence) = {} <=>
         Lost = {} /\ Compared = {} /\ (expected.exhaustive => More = {})
  BY <1>1
<1>13. IsFiniteSet(Also)
  BY <1>6, FS_EmptySet
<1> HIDE DEF Also
<1>14. IsFiniteSet(Lost \cup Compared)
  BY <1>6, <1>7, FS_Union
<1>15. IsFiniteSet((Lost \cup Compared) \cup Also)
  BY <1>13, <1>14, FS_Union
<1>16. EvidenceChanges(expected, evidence) = {} <=> EvidenceAgrees(expected, evidence)
  BY <1>8, <1>9, <1>10, <1>11, <1>12
<1> QED
  BY <1>1, <1>15, <1>16

\* What a person wrote, or nothing, and what a parser returns.
Written(expected) ==
  /\ "parsed" \in DOMAIN expected => IsJson(expected.parsed)
  /\ "evidence" \in DOMAIN expected =>
       AreEvidence(expected.evidence) /\ expected.exhaustive \in BOOLEAN
Returned(read) == IsJson(read.parsed) /\ AreEvidence(read.evidence)

\* A fixture has no changes exactly when it is read as it says.
LEMMA ManifestAgrees ==
  ASSUME NEW expected, NEW read, Written(expected), Returned(read)
  PROVE  /\ ReplayManifest(expected, read).changes = {} <=> Agrees(expected, read)
         /\ IsFiniteSet(ReplayManifest(expected, read).changes)
         /\ ReplayManifest(expected, read).reviewed <=> "reviewed_by" \in DOMAIN expected
<1> DEFINE failure == IF "failure" \in DOMAIN expected /\ expected.failure # read.failure
                      THEN {Change(<<Key("failure"), Key("reason")>>, "value")} ELSE {}
           parsed == IF "parsed" \in DOMAIN expected
                     THEN DiffJson(expected.parsed, read.parsed, <<>>) ELSE {}
           evidence == IF "evidence" \in DOMAIN expected
                       THEN EvidenceChanges(expected, read.evidence) ELSE {}
<1>1. /\ ReplayManifest(expected, read).changes = failure \cup parsed \cup evidence
      /\ ReplayManifest(expected, read).reviewed <=> "reviewed_by" \in DOMAIN expected
  BY DEF ReplayManifest
<1>2. /\ failure = {} <=> ("failure" \in DOMAIN expected => expected.failure = read.failure)
      /\ IsFiniteSet(failure)
  BY FS_EmptySet, FS_Singleton
<1>3. /\ parsed = {} <=> ("parsed" \in DOMAIN expected => expected.parsed = read.parsed)
      /\ IsFiniteSet(parsed)
  BY DiffAgrees, DiffFinite, FS_EmptySet DEF Written, Returned
<1>4. /\ evidence = {} <=> ("evidence" \in DOMAIN expected => EvidenceAgrees(expected, read.evidence))
      /\ IsFiniteSet(evidence)
  <2>1. CASE "evidence" \in DOMAIN expected
    BY <2>1, EvidenceCompared DEF Written, Returned
  <2>2. CASE "evidence" \notin DOMAIN expected
    BY <2>2, FS_EmptySet
  <2> QED
    BY <2>1, <2>2
<1>5. Agrees(expected, read) <=>
        /\ "parsed" \in DOMAIN expected => expected.parsed = read.parsed
        /\ "failure" \in DOMAIN expected => expected.failure = read.failure
        /\ "evidence" \in DOMAIN expected => EvidenceAgrees(expected, read.evidence)
  BY DEF Agrees, EvidenceAgrees, SameSpans
<1> HIDE DEF failure, parsed, evidence
<1>6. IsFiniteSet(failure \cup parsed \cup evidence)
  BY <1>2, <1>3, <1>4, FS_Union
<1>7. failure \cup parsed \cup evidence = {} <=> failure = {} /\ parsed = {} /\ evidence = {}
  OBVIOUS
<1> QED
  BY <1>1, <1>2, <1>3, <1>4, <1>5, <1>6, <1>7

\* The report counts a file that is no manifest, and a change that somebody
\* reviewed, whichever file it is in.
LEMMA ReportCounts ==
  ASSUME NEW files, NEW read, IsFiniteSet(DOMAIN files),
         \A f \in DOMAIN files : files[f].kind = "manifest" =>
           Written(files[f].expected) /\ Returned(read[files[f].stdout])
  PROVE  /\ ReplayDirectory(files, read).invalid > 0
              <=> \E f \in DOMAIN files : files[f].kind # "manifest"
         /\ ReplayDirectory(files, read).contractChanges > 0
              <=> \E f \in DOMAIN files :
                     /\ files[f].kind = "manifest" /\ "reviewed_by" \in DOMAIN files[f].expected
                     /\ ~Agrees(files[f].expected, read[files[f].stdout])
<1> DEFINE good == {f \in DOMAIN files : files[f].kind = "manifest"}
           result == [f \in good |-> ReplayManifest(files[f].expected, read[files[f].stdout])]
           reviewed == {g \in good : result[g].reviewed}
           bad == DOMAIN files \ good
           found == [f \in reviewed |-> {f} \X result[f].changes]
           all == UNION {found[f] : f \in reviewed}
<1>1. /\ ReplayDirectory(files, read).invalid = Cardinality(bad)
      /\ ReplayDirectory(files, read).contractChanges = Cardinality(all)
  BY DEF ReplayDirectory
<1>2. ASSUME NEW f \in good
      PROVE  /\ result[f].changes = {} <=> Agrees(files[f].expected, read[files[f].stdout])
             /\ IsFiniteSet(result[f].changes)
             /\ result[f].reviewed <=> "reviewed_by" \in DOMAIN files[f].expected
  BY ManifestAgrees
<1>3. IsFiniteSet(bad) /\ IsFiniteSet(reviewed)
  BY FS_Subset
<1> HIDE DEF result
<1>4. ASSUME NEW f \in reviewed PROVE IsFiniteSet(found[f])
  <2> DEFINE C == result[f].changes
             g == [c \in C |-> <<f, c>>]
  <2>1. found[f] = {f} \X C
    OBVIOUS
  <2>2. g = [c \in C |-> g[c]] /\ IsFiniteSet(C)
    BY <1>2
  <2> HIDE DEF C, found
  <2>3. found[f] = {g[c] : c \in C}
    BY <2>1
  <2> HIDE DEF g
  <2> QED
    BY <2>2, <2>3, ImageFinite
<1>5. found = [f \in reviewed |-> found[f]]
  OBVIOUS
<1>6. all = {} <=> \A f \in reviewed : result[f].changes = {}
  <2>1. \A f \in reviewed : found[f] = {f} \X result[f].changes
    OBVIOUS
  <2>2. all = {} <=> \A f \in reviewed : found[f] = {}
    OBVIOUS
  <2>3. ASSUME NEW f, NEW C PROVE {f} \X C = {} <=> C = {}
    <3>1. \A c \in C : <<f, c>> \in {f} \X C
      OBVIOUS
    <3>2. \A x \in {f} \X C : x[2] \in C
      OBVIOUS
    <3> DEFINE P == {f} \X C
    <3> HIDE DEF P
    <3> QED
      BY <3>1, <3>2 DEF P
  <2> HIDE DEF found, all, reviewed
  <2> QED
    BY <2>1, <2>2, <2>3
<1> HIDE DEF found
<1>7. IsFiniteSet(all)
  <2>1. IsFiniteSet({found[f] : f \in reviewed})
    BY <1>3, <1>5, ImageFinite
  <2> QED
    BY <1>4, <2>1, UnionFinite
<1>8. (Cardinality(bad) > 0 <=> bad # {}) /\ (Cardinality(all) > 0 <=> all # {})
  <2> HIDE DEF bad, all
  <2> QED
    BY <1>3, <1>7, FS_EmptySet, FS_CardinalityType
<1> QED
  BY <1>1, <1>2, <1>6, <1>8

\* What parism test reads: fixtures that were captured, and packs that were copied.
FilesInv ==
  /\ reader \in Readers
  /\ IsFiniteSet(DOMAIN fixtures)
  /\ \A f \in DOMAIN fixtures : fixtures[f].kind = "manifest" =>
       /\ {"kind", "stdout", "expected"} \subseteq DOMAIN fixtures[f]
       /\ \E text \in Printed : fixtures[f].stdout = SanitizeText(text, Rules).text
       /\ fixtures[f].expected \in Expectations \cup {<< >>}

GreenInv == FilesInv /\ GreenIsEarned

LEMMA FilesRead ==
  ASSUME FilesInv, NEW f \in DOMAIN fixtures, fixtures[f].kind = "manifest"
  PROVE  Written(fixtures[f].expected) /\ Returned(reader[fixtures[f].stdout])
<1>1. CASE fixtures[f].expected = << >>
  <2>1. "parsed" \notin DOMAIN << >> /\ "evidence" \notin DOMAIN << >>
    OBVIOUS
  <2> QED
    BY <1>1, <2>1, ReadingsAssumption DEF FilesInv, Written, Returned
<1>2. CASE fixtures[f].expected \in Expectations
  BY <1>2, ReadingsAssumption DEF FilesInv, Written, Returned
<1> QED
  BY <1>1, <1>2 DEF FilesInv

\* No fixture of a pack failed, or some did: the count says which.
LEMMA PacksCounted ==
  ASSUME NEW as \in Loadings, NEW n \in ReadOf(registry)
  PROVE  TestPacks(as)[n].failed \in Nat
<1> DEFINE pack == Source[as[n]]
<1>1. NotReplayable.failed = 0 /\ Untested("no_fixtures").failed = 0
  BY DEF NotReplayable, Untested
<1>2. ASSUME n \in DOMAIN as PROVE ReplayPack(pack).failed \in Nat
  <2> DEFINE bad == {i \in DOMAIN pack.fixtures : StatusOf(pack.fixtures[i]) = "fail"}
  <2>1. IsFiniteSet(DOMAIN pack.fixtures)
    <3>1. as[n] \in Adders
      <4>1. as \in UNION {[S -> Adders] : S \in SUBSET DOMAIN parsers}
        BY DEF Loadings
      <4>2. PICK S : as \in [S -> Adders]
        BY <4>1
      <4> QED
        BY <1>2, <4>2
    <3> QED
      BY <3>1, ReadingsAssumption
  <2>2. IsFiniteSet(bad)
    BY <2>1, FS_Subset
  <2>3. RunFixtureTests(pack.fixtures).failed = Cardinality(bad)
    BY DEF RunFixtureTests
  <2> HIDE DEF bad, pack
  <2>4. RunFixtureTests(pack.fixtures).failed \in Nat
    BY <2>2, <2>3, FS_CardinalityType
  <2>5. ReplayPack(pack).failed \in {Untested("no_fixtures").failed, RunFixtureTests(pack.fixtures).failed}
    BY DEF ReplayPack
  <2> QED
    BY <1>1, <2>4, <2>5
<1>3. TestPacks(as)[n] = IF n \in DOMAIN as THEN ReplayPack(pack) ELSE NotReplayable
  BY DEF TestPacks
<1> HIDE DEF pack
<1>4. CASE n \in DOMAIN as
  BY <1>2, <1>3, <1>4
<1>5. CASE n \notin DOMAIN as
  <2>1. TestPacks(as)[n] = NotReplayable
    BY <1>3, <1>5
  <2> QED
    BY <1>1, <2>1
<1> QED
  BY <1>4, <1>5

LEMMA TestIsEarned ==
  ASSUME GreenInv, NEW as \in Loadings, Test(as) PROVE GreenIsEarned'
<1> DEFINE report == ReplayDirectory(fixtures, reader)
           packs == TestPacks(as)
<1>1. /\ answer'.kind = "test" /\ answer'.files = fixtures /\ answer'.reader = reader
      /\ answer'.packs = packs /\ answer'.exit = TestExit(report, packs)
  BY DEF Test
<1>2. /\ report.invalid > 0 <=> \E f \in DOMAIN fixtures : fixtures[f].kind # "manifest"
      /\ report.contractChanges > 0 <=>
           \E f \in DOMAIN fixtures :
             /\ fixtures[f].kind = "manifest" /\ "reviewed_by" \in DOMAIN fixtures[f].expected
             /\ ~Agrees(fixtures[f].expected, reader[fixtures[f].stdout])
  BY FilesRead, ReportCounts DEF GreenInv, FilesInv
<1>3. DOMAIN packs = ReadOf(registry) /\ \A n \in DOMAIN packs : packs[n].failed \in Nat
  <2>1. DOMAIN packs = ReadOf(registry)
    BY DEF TestPacks
  <2> HIDE DEF packs
  <2> QED
    BY <2>1, PacksCounted DEF GreenInv, packs
<1> HIDE DEF report, packs
<1>4. \A n \in DOMAIN packs : packs[n].failed > 0 <=> packs[n].failed # 0
  BY <1>3
<1>5. TestExit(report, packs) = 0 <=>
        ~(\/ report.invalid > 0 \/ report.contractChanges > 0
          \/ \E n \in DOMAIN packs : packs[n].failed > 0)
  BY DEF TestExit
<1> QED
  BY <1>1, <1>2, <1>4, <1>5 DEF GreenIsEarned

LEMMA FilesNext == ASSUME FilesInv, Next PROVE FilesInv'
<1>1. CASE UNCHANGED <<fixtures, reader>>
  BY <1>1 DEF FilesInv
<1>2. ASSUME NEW new, NEW file, fixtures' = With(fixtures, file, new), reader' = reader,
             new.kind = "manifest" =>
               /\ {"kind", "stdout", "expected"} \subseteq DOMAIN new
               /\ \E text \in Printed : new.stdout = SanitizeText(text, Rules).text
               /\ new.expected \in {<< >>} \cup Expectations
      PROVE  FilesInv'
  <2>1. /\ DOMAIN fixtures' = DOMAIN fixtures \cup {file}
        /\ \A f \in DOMAIN fixtures' : fixtures'[f] = IF f = file THEN new ELSE fixtures[f]
    BY <1>2 DEF With
  <2>2. IsFiniteSet({file})
    BY FS_Singleton
  <2>3. IsFiniteSet(DOMAIN fixtures')
    <3>1. IsFiniteSet(DOMAIN fixtures)
      BY DEF FilesInv
    <3>2. IsFiniteSet(DOMAIN fixtures \cup {file})
      BY <2>2, <3>1, FS_Union
    <3> QED
      BY <2>1, <3>2
  <2> QED
    BY <1>2, <2>1, <2>3 DEF FilesInv
<1>10. ASSUME NEW cmd \in Commands, NEW text \in Printed, NEW args \in Args, Capture(cmd, text, args)
       PROVE  FilesInv'
  <2> DEFINE new == Captured(text, args)
  <2>1. /\ new.kind = "manifest" /\ {"kind", "stdout", "expected"} \subseteq DOMAIN new
        /\ new.stdout = SanitizeText(text, Rules).text /\ new.expected = << >>
    BY DEF Captured
  <2>2. fixtures' = With(fixtures, <<cmd, clock>>, new) /\ reader' = reader
    BY <1>10 DEF Capture, Put
  <2> HIDE DEF new
  <2> QED
    BY <1>2, <2>1, <2>2
<1>11. ASSUME NEW cmd \in Commands, CaptureFailed(cmd) PROVE FilesInv'
  <2>1. fixtures' = With(fixtures, <<cmd, clock>>, [kind |-> "invalid"]) /\ reader' = reader
    BY <1>11 DEF CaptureFailed, Put
  <2> QED
    BY <1>2, <2>1
<1>3. ASSUME NEW file \in DOMAIN fixtures, Spoil(file) PROVE FilesInv'
  <2>1. PICK kind \in {"no_json", "no_manifest", "invalid"} :
          fixtures' = [fixtures EXCEPT ![file] = [kind |-> kind]]
    BY <1>3 DEF Spoil
  <2>2. reader' = reader
    BY <1>3 DEF Spoil
  <2>3. /\ DOMAIN fixtures' = DOMAIN fixtures /\ fixtures'[file].kind # "manifest"
        /\ \A f \in DOMAIN fixtures : f # file => fixtures'[f] = fixtures[f]
    BY <2>1
  <2> QED
    BY <2>2, <2>3 DEF FilesInv
<1>4. ASSUME NEW file \in DOMAIN fixtures, NEW e \in Expectations, WriteExpected(file, e)
      PROVE  FilesInv'
  <2>1. /\ fixtures[file].kind = "manifest" /\ reader' = reader
        /\ fixtures' = [fixtures EXCEPT ![file].expected = e]
    BY <1>4 DEF WriteExpected
  <2>2. {"kind", "stdout", "expected"} \subseteq DOMAIN fixtures[file]
    BY <2>1 DEF FilesInv
  <2>3. /\ DOMAIN fixtures' = DOMAIN fixtures
        /\ fixtures'[file] = [fixtures[file] EXCEPT !.expected = e]
        /\ \A f \in DOMAIN fixtures : f # file => fixtures'[f] = fixtures[f]
    BY <2>1
  <2>4. /\ DOMAIN fixtures'[file] = DOMAIN fixtures[file] /\ fixtures'[file].kind = "manifest"
        /\ fixtures'[file].stdout = fixtures[file].stdout /\ fixtures'[file].expected = e
    BY <2>1, <2>2, <2>3
  <2> QED
    BY <2>1, <2>2, <2>3, <2>4 DEF FilesInv
<1>5. ASSUME NEW version \in Readers, Upgrade(version) PROVE FilesInv'
  BY <1>5 DEF Upgrade, FilesInv
<1>6. ASSUME NEW p \in Adders,
             \/ ReadPackName(p) \/ StartCopy(p) \/ BeginFile(p) \/ EndFile(p) \/ FinishCopy(p)
             \/ ReadRegistry(p) \/ EmptyRegistry(p) \/ WriteRegistry(p) \/ Kill(p)
      PROVE  UNCHANGED <<fixtures, reader>>
  BY <1>6 DEF ReadPackName, StartCopy, BeginFile, EndFile, FinishCopy, ReadRegistry,
     EmptyRegistry, WriteRegistry, Kill
<1>7. CASE Tick
  BY <1>1, <1>7 DEF Tick
<1>8. ASSUME NEW as \in Loadings, StartServer(as) \/ Test(as) PROVE UNCHANGED <<fixtures, reader>>
  BY <1>8 DEF StartServer, Test, disk
<1>9. CASE Judging
  BY <1>1, <1>9 DEF Judging, Evaluate, disk
<1> QED
  BY <1>1, <1>3, <1>4, <1>5, <1>6, <1>7, <1>8, <1>9, <1>10, <1>11 DEF Next, Working

LEMMA GreenNext == ASSUME GreenInv, [Next]_vars PROVE GreenInv'
<1>1. ASSUME UNCHANGED answer PROVE GreenIsEarned'
  BY <1>1 DEF GreenInv, GreenIsEarned
<1>2. ASSUME answer'.kind # "test" PROVE GreenIsEarned'
  BY <1>2 DEF GreenIsEarned
<1>3. ASSUME NEW as \in Loadings, StartServer(as) \/ Test(as) PROVE GreenIsEarned'
  <2>1. StartServer(as) => answer'.kind = "start"
    BY DEF StartServer
  <2> QED
    BY <1>2, <1>3, <2>1, TestIsEarned
<1>4. ASSUME NEW p \in Adders,
             \/ ReadPackName(p) \/ StartCopy(p) \/ BeginFile(p) \/ EndFile(p) \/ FinishCopy(p)
             \/ ReadRegistry(p) \/ EmptyRegistry(p) \/ WriteRegistry(p) \/ Kill(p)
      PROVE  UNCHANGED answer
  BY <1>4 DEF ReadPackName, StartCopy, BeginFile, EndFile, FinishCopy, ReadRegistry,
     EmptyRegistry, WriteRegistry, Kill
<1>5. ASSUME \/ Tick
             \/ \E cmd \in Commands, text \in Printed, args \in Args : Capture(cmd, text, args)
             \/ \E file \in DOMAIN fixtures :
                   Spoil(file) \/ \E e \in Expectations : WriteExpected(file, e)
             \/ \E cmd \in Commands : CaptureFailed(cmd)
             \/ \E version \in Readers : Upgrade(version)
      PROVE  UNCHANGED answer
  BY <1>5 DEF Tick, Capture, CaptureFailed, Spoil, WriteExpected, Upgrade
<1>6. ASSUME NEW suite \in Suites, Evaluate(suite) PROVE answer'.kind = "eval"
  BY <1>6 DEF Evaluate
<1>7. CASE Next
  <2>1. GreenIsEarned'
    BY <1>1, <1>2, <1>3, <1>4, <1>5, <1>6, <1>7 DEF Next, Working, Judging
  <2> QED
    BY <1>7, <2>1, FilesNext DEF GreenInv
<1>8. CASE UNCHANGED vars
  BY <1>1, <1>8 DEF vars, GreenInv, FilesInv
<1> QED
  BY <1>7, <1>8

\* parism test is green exactly when it should be, for every directory of
\* fixtures, every version of the parsers and every registered pack: a difference
\* at any depth of what was reviewed, a file that is no fixture or a failed
\* fixture of a pack turns it red, and nothing else does (replayDirectory,
\* fixtures/run.ts, and diffJson, fixtures/replay.ts).
THEOREM GreenIsJust == Spec => []GreenIsEarned
<1>1. Init => GreenInv
  BY FS_EmptySet DEF Init, GreenInv, FilesInv, GreenIsEarned, Nothing
<1>2. GreenInv /\ [Next]_vars => GreenInv'
  BY GreenNext
<1>3. GreenInv => GreenIsEarned
  BY DEF GreenInv
<1> QED
  BY <1>1, <1>2, <1>3, PTL DEF Spec

------------------------------------------------------------------------------
(* What capture hides.                                                     *)

\* The greatest of some of the first n numbers is one of them.
LEMMA MaxOfSome ==
  ASSUME NEW n \in Nat, NEW s \in SUBSET (1 .. n), s # {}
  PROVE  Max(s) \in s /\ \A y \in s : Max(s) >= y
<1> DEFINE bounds == {k \in Nat : \A y \in s : k >= y}
<1>1. n \in bounds
  OBVIOUS
<1>2. PICK m \in bounds : \A k \in bounds : m <= k
  BY <1>1, Least
<1>3. m \in s
  <2>1. SUFFICES ASSUME m \notin s PROVE FALSE
    OBVIOUS
  <2>2. PICK y \in s : TRUE
    OBVIOUS
  <2>3. m - 1 \in Nat /\ \A z \in s : m - 1 >= z
    BY <2>1, <2>2, <1>2
  <2> QED
    BY <2>3, <1>2
<1>4. \E x \in s : \A y \in s : x >= y
  BY <1>2, <1>3
<1> QED
  BY <1>4 DEF Max

\* A fold over a sequence goes through what it is after each of its elements.
LEMMA AcceptByRule ==
  ASSUME NEW text, NEW rules, NEW n \in Nat, DOMAIN rules = 1 .. n
  PROVE  \E g : /\ g[0] = NothingFound /\ Accept(text, rules) = g[n]
                /\ \A k \in 1 .. n : g[k] = AddRule(text, g[k - 1], rules[k])
<1> DEFINE step(a, k) == AddRule(text, a, rules[k])
           body(f) == [s \in SUBSET DOMAIN rules |->
                         IF s = {} THEN NothingFound ELSE step(f[s \ {Max(s)}], Max(s))]
           iter == CHOOSE f : f = body(f)
           Good(m, f) == \A s \in SUBSET (1 .. m) :
                           f[s] = IF s = {} THEN NothingFound ELSE step(f[s \ {Max(s)}], Max(s))
           T == {m \in Nat : \E f : Good(m, f)}
<1>1. Accept(text, rules) = iter[DOMAIN rules]
  BY DEF Accept, FoldLeft, MapThenFoldSet
<1> HIDE DEF step
<1>2. Nat \subseteq T
  <2>1. 0 \in T
    <3> DEFINE f == [s \in {{}} |-> NothingFound]
    <3>1. Good(0, f)
      OBVIOUS
    <3> HIDE DEF f
    <3> QED
      BY <3>1
  <2>2. ASSUME NEW m \in Nat, m \in T PROVE m + 1 \in T
    <3>1. PICK f : Good(m, f)
      BY <2>2
    <3> DEFINE h == [s \in SUBSET (1 .. m + 1) |->
                       IF m + 1 \in s THEN step(f[s \ {m + 1}], m + 1) ELSE f[s]]
    <3>2. ASSUME NEW s \in SUBSET (1 .. m + 1)
          PROVE h[s] = IF s = {} THEN NothingFound ELSE step(h[s \ {Max(s)}], Max(s))
      <4>1. CASE m + 1 \in s
        <5>0. m + 1 \in Nat /\ s # {}
          BY <4>1
        <5>1. Max(s) \in s /\ Max(s) >= m + 1
          BY <4>1, <5>0, MaxOfSome
        <5>4. \A k \in s : k \in 1 .. m + 1
          OBVIOUS
        <5>5. \A k \in 1 .. m + 1 : k >= m + 1 => k = m + 1
          OBVIOUS
        <5>6. Max(s) = m + 1
          BY <5>1, <5>4, <5>5
        <5>3. Max(s) = m + 1 /\ s \ {m + 1} \in SUBSET (1 .. m + 1)
          BY <5>6
        <5>2. h[s \ {m + 1}] = f[s \ {m + 1}]
          BY <5>3
        <5> QED
          BY <4>1, <5>0, <5>2, <5>3
      <4>2. CASE m + 1 \notin s
        <5>0. \A k \in s : k \in 1 .. m
          BY <4>2
        <5>1. s \in SUBSET (1 .. m) /\ s \ {Max(s)} \in SUBSET (1 .. m + 1) /\ m + 1 \notin s \ {Max(s)}
          BY <4>2, <5>0
        <5>2. h[s \ {Max(s)}] = f[s \ {Max(s)}] /\ h[s] = f[s]
          BY <4>2, <5>1
        <5> QED
          BY <3>1, <5>1, <5>2
      <4> QED
        BY <4>1, <4>2
    <3>3. Good(m + 1, h)
      BY <3>2
    <3> HIDE DEF Good
    <3> QED
      BY <3>3
  <2> HIDE DEF T
  <2> QED
    BY <2>1, <2>2, Induct
<1>3. PICK f : Good(n, f)
  BY <1>2
<1> DEFINE h == [s \in SUBSET (1 .. n) |-> f[s]]
<1>4. h = body(h)
  <2>1. ASSUME NEW s \in SUBSET (1 .. n) PROVE h[s] = body(h)[s]
    BY <1>3
  <2> QED
    BY <2>1
<1> HIDE DEF h
<1>5. iter = body(iter)
  BY <1>4
<1> HIDE DEF iter
<1> DEFINE g == [k \in 0 .. n |-> iter[1 .. k]]
<1>6. g[0] = NothingFound
  BY <1>5
<1>7. ASSUME NEW k \in 1 .. n PROVE g[k] = step(g[k - 1], k)
  <2>0. k \in Nat /\ 1 .. k \in SUBSET (1 .. k) /\ k \in 1 .. k
    OBVIOUS
  <2>3. Max(1 .. k) \in 1 .. k /\ Max(1 .. k) >= k
    BY <2>0, MaxOfSome
  <2>1. Max(1 .. k) = k /\ (1 .. k) \ {k} = 1 .. k - 1 /\ k - 1 \in 0 .. n /\ 1 .. k # {}
    BY <2>3
  <2>2. iter[1 .. k] = step(iter[(1 .. k) \ {k}], k)
    <3>1. 1 .. k \in SUBSET DOMAIN rules
      OBVIOUS
    <3>2. iter[1 .. k] = body(iter)[1 .. k]
      BY <1>5
    <3> QED
      BY <2>1, <3>1, <3>2
  <2>4. g[k] = iter[1 .. k] /\ g[k - 1] = iter[1 .. k - 1]
    BY <2>1
  <2>5. iter[(1 .. k) \ {k}] = g[k - 1]
    BY <2>1, <2>4
  <2> HIDE DEF g
  <2> QED
    BY <2>2, <2>4, <2>5
<1>8. g[n] = iter[DOMAIN rules]
  OBVIOUS
<1> QED
  <2> HIDE DEF g
  <2> QED
    BY <1>1, <1>6, <1>7, <1>8 DEF step
\* g: the text after each replacement.
SplicedBy(g, text, order, n) ==
  /\ g[0] = text /\ Splice(text, order) = g[n]
  /\ \A k \in 1 .. n : g[k] = PutMarker(g[k - 1], order[k])

LEMMA SpliceByRange ==
  ASSUME NEW text, NEW order, NEW n \in Nat, DOMAIN order = 1 .. n
  PROVE  \E g : SplicedBy(g, text, order, n)
<1> DEFINE step(a, k) == PutMarker(a, order[k])
           body(f) == [s \in SUBSET DOMAIN order |->
                         IF s = {} THEN text ELSE step(f[s \ {Max(s)}], Max(s))]
           iter == CHOOSE f : f = body(f)
           Good(m, f) == \A s \in SUBSET (1 .. m) :
                           f[s] = IF s = {} THEN text ELSE step(f[s \ {Max(s)}], Max(s))
           T == {m \in Nat : \E f : Good(m, f)}
<1>1. Splice(text, order) = iter[DOMAIN order]
  BY DEF Splice, FoldLeft, MapThenFoldSet
<1> HIDE DEF step
<1>2. Nat \subseteq T
  <2>1. 0 \in T
    <3> DEFINE f == [s \in {{}} |-> text]
    <3>1. Good(0, f)
      OBVIOUS
    <3> HIDE DEF f
    <3> QED
      BY <3>1
  <2>2. ASSUME NEW m \in Nat, m \in T PROVE m + 1 \in T
    <3>1. PICK f : Good(m, f)
      BY <2>2
    <3> DEFINE h == [s \in SUBSET (1 .. m + 1) |->
                       IF m + 1 \in s THEN step(f[s \ {m + 1}], m + 1) ELSE f[s]]
    <3>2. ASSUME NEW s \in SUBSET (1 .. m + 1)
          PROVE h[s] = IF s = {} THEN text ELSE step(h[s \ {Max(s)}], Max(s))
      <4>1. CASE m + 1 \in s
        <5>0. m + 1 \in Nat /\ s # {}
          BY <4>1
        <5>1. Max(s) \in s /\ Max(s) >= m + 1
          BY <4>1, <5>0, MaxOfSome
        <5>4. \A k \in s : k \in 1 .. m + 1
          OBVIOUS
        <5>5. \A k \in 1 .. m + 1 : k >= m + 1 => k = m + 1
          OBVIOUS
        <5>6. Max(s) = m + 1
          BY <5>1, <5>4, <5>5
        <5>3. Max(s) = m + 1 /\ s \ {m + 1} \in SUBSET (1 .. m + 1)
          BY <5>6
        <5>2. h[s \ {m + 1}] = f[s \ {m + 1}]
          BY <5>3
        <5> QED
          BY <4>1, <5>0, <5>2, <5>3
      <4>2. CASE m + 1 \notin s
        <5>0. \A k \in s : k \in 1 .. m
          BY <4>2
        <5>1. s \in SUBSET (1 .. m) /\ s \ {Max(s)} \in SUBSET (1 .. m + 1) /\ m + 1 \notin s \ {Max(s)}
          BY <4>2, <5>0
        <5>2. h[s \ {Max(s)}] = f[s \ {Max(s)}] /\ h[s] = f[s]
          BY <4>2, <5>1
        <5> QED
          BY <3>1, <5>1, <5>2
      <4> QED
        BY <4>1, <4>2
    <3>3. Good(m + 1, h)
      BY <3>2
    <3> HIDE DEF Good
    <3> QED
      BY <3>3
  <2> HIDE DEF T
  <2> QED
    BY <2>1, <2>2, Induct
<1>3. PICK f : Good(n, f)
  BY <1>2
<1> DEFINE h == [s \in SUBSET (1 .. n) |-> f[s]]
<1>4. h = body(h)
  <2>1. ASSUME NEW s \in SUBSET (1 .. n) PROVE h[s] = body(h)[s]
    BY <1>3
  <2> QED
    BY <2>1
<1> HIDE DEF h
<1>5. iter = body(iter)
  BY <1>4
<1> HIDE DEF iter
<1> DEFINE g == [k \in 0 .. n |-> iter[1 .. k]]
<1>6. g[0] = text
  BY <1>5
<1>7. ASSUME NEW k \in 1 .. n PROVE g[k] = step(g[k - 1], k)
  <2>0. k \in Nat /\ 1 .. k \in SUBSET (1 .. k) /\ k \in 1 .. k
    OBVIOUS
  <2>3. Max(1 .. k) \in 1 .. k /\ Max(1 .. k) >= k
    BY <2>0, MaxOfSome
  <2>1. Max(1 .. k) = k /\ (1 .. k) \ {k} = 1 .. k - 1 /\ k - 1 \in 0 .. n /\ 1 .. k # {}
    BY <2>3
  <2>2. iter[1 .. k] = step(iter[(1 .. k) \ {k}], k)
    <3>1. 1 .. k \in SUBSET DOMAIN order
      OBVIOUS
    <3>2. iter[1 .. k] = body(iter)[1 .. k]
      BY <1>5
    <3> QED
      BY <2>1, <3>1, <3>2
  <2>4. g[k] = iter[1 .. k] /\ g[k - 1] = iter[1 .. k - 1]
    BY <2>1
  <2>5. iter[(1 .. k) \ {k}] = g[k - 1]
    BY <2>1, <2>4
  <2> HIDE DEF g
  <2> QED
    BY <2>2, <2>4, <2>5
<1>8. g[n] = iter[DOMAIN order]
  OBVIOUS
<1> QED
  <2> HIDE DEF g
  <2>1. SplicedBy(g, text, order, n)
    BY <1>1, <1>6, <1>7, <1>8 DEF step, SplicedBy
  <2> QED
    BY <2>1
LEMMA CountByEntry ==
  ASSUME NEW entries, NEW n \in Nat, DOMAIN entries = 1 .. n
  PROVE  \E g : /\ g[0] = 0 /\ Counted(entries) = g[n]
                /\ \A k \in 1 .. n : g[k] = g[k - 1] + entries[k].count
<1> DEFINE step(a, k) == a + entries[k].count
           body(f) == [s \in SUBSET DOMAIN entries |->
                         IF s = {} THEN 0 ELSE step(f[s \ {Max(s)}], Max(s))]
           iter == CHOOSE f : f = body(f)
           Good(m, f) == \A s \in SUBSET (1 .. m) :
                           f[s] = IF s = {} THEN 0 ELSE step(f[s \ {Max(s)}], Max(s))
           T == {m \in Nat : \E f : Good(m, f)}
<1>1. Counted(entries) = iter[DOMAIN entries]
  BY DEF Counted, FoldLeft, MapThenFoldSet
<1> HIDE DEF step
<1>2. Nat \subseteq T
  <2>1. 0 \in T
    <3> DEFINE f == [s \in {{}} |-> 0]
    <3>1. Good(0, f)
      OBVIOUS
    <3> HIDE DEF f
    <3> QED
      BY <3>1
  <2>2. ASSUME NEW m \in Nat, m \in T PROVE m + 1 \in T
    <3>1. PICK f : Good(m, f)
      BY <2>2
    <3> DEFINE h == [s \in SUBSET (1 .. m + 1) |->
                       IF m + 1 \in s THEN step(f[s \ {m + 1}], m + 1) ELSE f[s]]
    <3>2. ASSUME NEW s \in SUBSET (1 .. m + 1)
          PROVE h[s] = IF s = {} THEN 0 ELSE step(h[s \ {Max(s)}], Max(s))
      <4>1. CASE m + 1 \in s
        <5>0. m + 1 \in Nat /\ s # {}
          BY <4>1
        <5>1. Max(s) \in s /\ Max(s) >= m + 1
          BY <4>1, <5>0, MaxOfSome
        <5>4. \A k \in s : k \in 1 .. m + 1
          OBVIOUS
        <5>5. \A k \in 1 .. m + 1 : k >= m + 1 => k = m + 1
          OBVIOUS
        <5>6. Max(s) = m + 1
          BY <5>1, <5>4, <5>5
        <5>3. Max(s) = m + 1 /\ s \ {m + 1} \in SUBSET (1 .. m + 1)
          BY <5>6
        <5>2. h[s \ {m + 1}] = f[s \ {m + 1}]
          BY <5>3
        <5> QED
          BY <4>1, <5>0, <5>2, <5>3
      <4>2. CASE m + 1 \notin s
        <5>0. \A k \in s : k \in 1 .. m
          BY <4>2
        <5>1. s \in SUBSET (1 .. m) /\ s \ {Max(s)} \in SUBSET (1 .. m + 1) /\ m + 1 \notin s \ {Max(s)}
          BY <4>2, <5>0
        <5>2. h[s \ {Max(s)}] = f[s \ {Max(s)}] /\ h[s] = f[s]
          BY <4>2, <5>1
        <5> QED
          BY <3>1, <5>1, <5>2
      <4> QED
        BY <4>1, <4>2
    <3>3. Good(m + 1, h)
      BY <3>2
    <3> HIDE DEF Good
    <3> QED
      BY <3>3
  <2> HIDE DEF T
  <2> QED
    BY <2>1, <2>2, Induct
<1>3. PICK f : Good(n, f)
  BY <1>2
<1> DEFINE h == [s \in SUBSET (1 .. n) |-> f[s]]
<1>4. h = body(h)
  <2>1. ASSUME NEW s \in SUBSET (1 .. n) PROVE h[s] = body(h)[s]
    BY <1>3
  <2> QED
    BY <2>1
<1> HIDE DEF h
<1>5. iter = body(iter)
  BY <1>4
<1> HIDE DEF iter
<1> DEFINE g == [k \in 0 .. n |-> iter[1 .. k]]
<1>6. g[0] = 0
  BY <1>5
<1>7. ASSUME NEW k \in 1 .. n PROVE g[k] = step(g[k - 1], k)
  <2>0. k \in Nat /\ 1 .. k \in SUBSET (1 .. k) /\ k \in 1 .. k
    OBVIOUS
  <2>3. Max(1 .. k) \in 1 .. k /\ Max(1 .. k) >= k
    BY <2>0, MaxOfSome
  <2>1. Max(1 .. k) = k /\ (1 .. k) \ {k} = 1 .. k - 1 /\ k - 1 \in 0 .. n /\ 1 .. k # {}
    BY <2>3
  <2>2. iter[1 .. k] = step(iter[(1 .. k) \ {k}], k)
    <3>1. 1 .. k \in SUBSET DOMAIN entries
      OBVIOUS
    <3>2. iter[1 .. k] = body(iter)[1 .. k]
      BY <1>5
    <3> QED
      BY <2>1, <3>1, <3>2
  <2>4. g[k] = iter[1 .. k] /\ g[k - 1] = iter[1 .. k - 1]
    BY <2>1
  <2>5. iter[(1 .. k) \ {k}] = g[k - 1]
    BY <2>1, <2>4
  <2> HIDE DEF g
  <2> QED
    BY <2>2, <2>4, <2>5
<1>8. g[n] = iter[DOMAIN entries]
  OBVIOUS
<1> QED
  <2> HIDE DEF g
  <2> QED
    BY <1>1, <1>6, <1>7, <1>8 DEF step

\* A sequence of sequences is flattened from its first to its last.
ByPart(U, n, u, F) ==
  /\ F \in [0 .. n -> Seq(U)] /\ F[0] = <<>> /\ FlattenSeq(u) = F[n]
  /\ \A k \in 1 .. n : F[k] = F[k - 1] \o u[k]

LEMMA FlattenByPart ==
  ASSUME NEW U, NEW n \in Nat, NEW u \in [1 .. n -> Seq(U)]
  PROVE  \E F : ByPart(U, n, u, F)
<1> DEFINE body(f) == [i \in 1 .. Len(u) |-> IF i = 1 THEN u[i] ELSE f[i - 1] \o u[i]]
           flatten == CHOOSE f : f = body(f)
           Good(m, f) == /\ f \in [0 .. m -> Seq(U)] /\ f[0] = <<>>
                         /\ \A k \in 1 .. m : k <= n => f[k] = f[k - 1] \o u[k]
           T == {m \in Nat : m <= n => \E f : Good(m, f)}
<1>0. u \in Seq(Seq(U)) /\ Len(u) = n
  OBVIOUS
<1> HIDE DEF Good
<1>1. Nat \subseteq T
  <2>1. 0 \in T
    <3> DEFINE f == [k \in {0} |-> <<>>]
    <3>1. Good(0, f)
      BY DEF Good
    <3> HIDE DEF f
    <3> QED
      BY <3>1
  <2>2. ASSUME NEW m \in Nat, m \in T PROVE m + 1 \in T
    <3>1. SUFFICES ASSUME m + 1 <= n PROVE \E f : Good(m + 1, f)
      OBVIOUS
    <3>2. PICK f : Good(m, f)
      BY <2>2, <3>1
    <3> DEFINE h == [k \in 0 .. m + 1 |-> IF k = m + 1 THEN f[m] \o u[m + 1] ELSE f[k]]
    <3>3. f[m] \o u[m + 1] \in Seq(U)
      BY <3>1, <3>2 DEF Good
    <3>4. h \in [0 .. m + 1 -> Seq(U)] /\ h[0] = <<>>
      BY <3>2, <3>3 DEF Good
    <3>5. ASSUME NEW k \in 1 .. m + 1 PROVE h[k] = h[k - 1] \o u[k]
      <4>1. CASE k = m + 1
        BY <4>1
      <4>2. CASE k # m + 1
        <5>1. k \in 1 .. m /\ k <= n /\ k - 1 \in 0 .. m
          BY <3>1, <4>2
        <5>2. f[k] = f[k - 1] \o u[k]
          BY <3>2, <5>1 DEF Good
        <5>3. h[k] = f[k] /\ h[k - 1] = f[k - 1]
          BY <5>1
        <5> QED
          BY <5>2, <5>3
      <4> QED
        BY <4>1, <4>2
    <3>6. Good(m + 1, h)
      BY <3>4, <3>5 DEF Good
    <3> HIDE DEF h
    <3> QED
      BY <3>6
  <2> HIDE DEF T
  <2> QED
    BY <2>1, <2>2, Induct
<1>6. PICK F : Good(n, F)
  BY <1>1
<1>2. /\ F \in [0 .. n -> Seq(U)] /\ F[0] = <<>>
      /\ \A k \in 1 .. n : F[k] = F[k - 1] \o u[k]
  <2>1. \A k \in 1 .. n : k <= n
    OBVIOUS
  <2>2. /\ F \in [0 .. n -> Seq(U)] /\ F[0] = <<>>
        /\ \A k \in 1 .. n : k <= n => F[k] = F[k - 1] \o u[k]
    BY <1>6 DEF Good
  <2> QED
    BY <2>1, <2>2
<1>3. FlattenSeq(u) = IF n = 0 THEN u ELSE flatten[n]
  BY <1>0 DEF FlattenSeq
<1>4. CASE n = 0
  <2>1. u = <<>>
    BY <1>4
  <2> QED
    BY <1>2, <1>3, <1>4, <2>1 DEF ByPart
<1>5. CASE n # 0
  <2> DEFINE h == [i \in 1 .. n |-> F[i]]
  <2>1. h = body(h)
    <3>1. ASSUME NEW i \in 1 .. n PROVE h[i] = IF i = 1 THEN u[i] ELSE h[i - 1] \o u[i]
      <4>1. F[i] = F[i - 1] \o u[i]
        BY <1>2
      <4>2. CASE i = 1
        <5>1. u[i] \in Seq(U) /\ F[i - 1] = <<>>
          BY <1>2, <4>2
        <5> QED
          BY <4>1, <4>2, <5>1
      <4>3. CASE i # 1
        BY <4>1, <4>3
      <4> QED
        BY <4>2, <4>3
    <3> QED
      BY <1>0, <3>1
  <2> HIDE DEF h
  <2>2. flatten = body(flatten)
    BY <2>1
  <2> HIDE DEF flatten
  <2> DEFINE V == {i \in Nat : i \in 1 .. n => flatten[i] = F[i]}
  <2>3. Nat \subseteq V
    <3>1. 0 \in V
      OBVIOUS
    <3>2. ASSUME NEW i \in Nat, i \in V PROVE i + 1 \in V
      <4>1. SUFFICES ASSUME i + 1 \in 1 .. n PROVE flatten[i + 1] = F[i + 1]
        OBVIOUS
      <4>2. F[i + 1] = F[i] \o u[i + 1]
        <5>1. F[i + 1] = F[(i + 1) - 1] \o u[i + 1]
          BY <1>2, <4>1
        <5>2. (i + 1) - 1 = i
          OBVIOUS
        <5> QED
          BY <5>1, <5>2
      <4>3. flatten[i + 1] = IF i + 1 = 1 THEN u[i + 1] ELSE flatten[i] \o u[i + 1]
        <5>1. flatten[i + 1] = body(flatten)[i + 1]
          BY <2>2
        <5>2. (i + 1) - 1 = i
          OBVIOUS
        <5> QED
          BY <1>0, <4>1, <5>1, <5>2
      <4>4. CASE i = 0
        <5>1. u[i + 1] \in Seq(U) /\ F[i] = <<>>
          BY <1>2, <4>1, <4>4
        <5> QED
          BY <4>2, <4>3, <4>4, <5>1
      <4>5. CASE i # 0
        <5>1. flatten[i] = F[i]
          BY <3>2, <4>1, <4>5
        <5>2. i + 1 # 1
          BY <4>5
        <5>3. flatten[i + 1] = flatten[i] \o u[i + 1]
          BY <4>3, <5>2
        <5> QED
          BY <4>2, <5>1, <5>3
      <4> QED
        BY <4>4, <4>5
    <3> HIDE DEF V
    <3> QED
      BY <3>1, <3>2, Induct
  <2>4. flatten[n] = F[n]
    BY <1>5, <2>3
  <2>5. FlattenSeq(u) = F[n]
    BY <1>3, <1>5, <2>4
  <2> QED
    BY <1>2, <2>5 DEF ByPart
<1> QED
  BY <1>4, <1>5

\* An entry at the end counts for what it says.
LEMMA CountOneMore ==
  ASSUME NEW R, \A r \in R : r.count \in Nat, NEW entries \in Seq(R), NEW last \in R
  PROVE  /\ Counted(entries) \in Nat
         /\ Counted(Append(entries, last)) = Counted(entries) + last.count
<1> DEFINE n == Len(entries)
           more == Append(entries, last)
<1>1. /\ n \in Nat /\ n + 1 \in Nat /\ DOMAIN entries = 1 .. n /\ DOMAIN more = 1 .. n + 1
      /\ \A k \in 1 .. n : more[k] = entries[k] /\ entries[k].count \in Nat
      /\ more[n + 1] = last
  OBVIOUS
<1> HIDE DEF n, more
<1>2. PICK g : /\ g[0] = 0 /\ Counted(entries) = g[n]
               /\ \A k \in 1 .. n : g[k] = g[k - 1] + entries[k].count
  BY <1>1, CountByEntry
<1>3. PICK h : /\ h[0] = 0 /\ Counted(more) = h[n + 1]
               /\ \A k \in 1 .. n + 1 : h[k] = h[k - 1] + more[k].count
  BY <1>1, CountByEntry
<1> DEFINE T == {k \in Nat : k <= n => g[k] \in Nat /\ h[k] = g[k]}
<1>4. Nat \subseteq T
  <2>1. 0 \in T
    BY <1>2, <1>3
  <2>2. ASSUME NEW k \in Nat, k \in T PROVE k + 1 \in T
    <3> SUFFICES ASSUME k + 1 <= n PROVE g[k + 1] \in Nat /\ h[k + 1] = g[k + 1]
      OBVIOUS
    <3>1. k + 1 \in 1 .. n /\ k + 1 \in 1 .. n + 1 /\ (k + 1) - 1 = k
      BY <1>1
    <3>2. g[k + 1] = g[k] + entries[k + 1].count /\ h[k + 1] = h[k] + more[k + 1].count
      BY <1>2, <1>3, <3>1
    <3>3. g[k] \in Nat /\ h[k] = g[k]
      BY <1>1, <2>2
    <3> QED
      BY <1>1, <3>1, <3>2, <3>3
  <2> HIDE DEF T
  <2> QED
    BY <2>1, <2>2, Induct
<1>5. g[n] \in Nat /\ h[n] = g[n]
  BY <1>1, <1>4
<1>6. h[n + 1] = h[n] + last.count
  <2>1. n + 1 \in 1 .. n + 1 /\ (n + 1) - 1 = n
    BY <1>1
  <2> QED
    BY <1>1, <1>3, <2>1
<1> QED
  BY <1>2, <1>3, <1>5, <1>6 DEF more

LEMMA CountNone == Counted(<<>>) = 0
<1>1. 0 \in Nat /\ DOMAIN <<>> = 1 .. 0
  OBVIOUS
<1> QED
  BY <1>1, CountByEntry

\* A range lies in the text and is not empty.
Placed(text, r) ==
  /\ r = [start |-> r.start, end |-> r.end, marker |-> r.marker]
  /\ r.start \in Nat /\ r.end \in Nat
  /\ r.start < r.end /\ r.end <= Len(text)

Apart(ranges) == \A a, b \in ranges : Overlap(a, b) => a = b

\* The matches of one rule are whole runs: two of them do not touch.
LEMMA MatchesApart ==
  ASSUME NEW U, NEW text \in Seq(U), NEW rule
  PROVE  /\ \A c \in FindRanges(text, rule) : Placed(text, c) /\ c.marker = rule.marker
         /\ Apart(FindRanges(text, rule))
         /\ IsFiniteSet(FindRanges(text, rule))
<1> DEFINE In(i) == i \in DOMAIN text /\ text[i] \in rule.units
           Run(first, last) == /\ first <= last /\ \A i \in first .. last : In(i)
                               /\ ~In(first - 1) /\ ~In(last + 1)
           D == DOMAIN text
           at(r) == [start |-> r[1] - 1, end |-> r[2], marker |-> rule.marker]
           runs == {r \in D \X D : Run(r[1], r[2])}
<1>1. FindRanges(text, rule) = {at(r) : r \in runs}
  BY DEF FindRanges
<1>2. D = 1 .. Len(text) /\ Len(text) \in Nat
  OBVIOUS
<1> HIDE DEF D, In
<1>3. \A r \in runs : /\ r[1] \in 1 .. Len(text) /\ r[2] \in 1 .. Len(text) /\ r[1] <= r[2]
                      /\ Run(r[1], r[2])
  BY <1>2
<1> HIDE DEF runs
<1>4. ASSUME NEW r \in runs PROVE Placed(text, at(r)) /\ at(r).marker = rule.marker
  BY <1>2, <1>3 DEF Placed
<1>5. ASSUME NEW r \in runs, NEW q \in runs, Overlap(at(r), at(q)) PROVE at(r) = at(q)
  <2>1. /\ r[1] \in Nat /\ r[2] \in Nat /\ q[1] \in Nat /\ q[2] \in Nat
        /\ r[1] <= q[2] /\ q[1] <= r[2] /\ r[1] >= 1 /\ q[1] >= 1
    BY <1>2, <1>3, <1>5 DEF Overlap
  <2>2. Run(r[1], r[2]) /\ Run(q[1], q[2])
    BY <1>3
  <2>3. r[1] = q[1]
    <3>1. ASSUME r[1] < q[1] PROVE FALSE
      <4>1. q[1] - 1 \in r[1] .. r[2]
        BY <2>1, <3>1
      <4> QED
        BY <2>2, <4>1
    <3>2. ASSUME q[1] < r[1] PROVE FALSE
      <4>1. r[1] - 1 \in q[1] .. q[2]
        BY <2>1, <3>2
      <4> QED
        BY <2>2, <4>1
    <3> QED
      BY <2>1, <3>1, <3>2
  <2>4. r[2] = q[2]
    <3>1. ASSUME r[2] < q[2] PROVE FALSE
      <4>1. r[2] + 1 \in q[1] .. q[2]
        BY <2>1, <3>1
      <4> QED
        BY <2>2, <4>1
    <3>2. ASSUME q[2] < r[2] PROVE FALSE
      <4>1. q[2] + 1 \in r[1] .. r[2]
        BY <2>1, <3>2
      <4> QED
        BY <2>2, <4>1
    <3> QED
      BY <2>1, <3>1, <3>2
  <2> QED
    BY <2>3, <2>4
<1>6. IsFiniteSet({at(r) : r \in runs})
  <2>1. IsFiniteSet(D)
    BY <1>2, FS_Interval
  <2>2. IsFiniteSet(D \X D)
    BY <2>1, FS_Product
  <2>3. IsFiniteSet(runs)
    BY <2>2, FS_Subset DEF runs
  <2> DEFINE image == {at(r) : r \in runs}
             f == [r \in runs |-> at(r)]
  <2>4. f \in Surjection(runs, image)
    BY DEF Surjection
  <2> HIDE DEF f, image
  <2> QED
    BY <2>3, <2>4, FS_Surjection DEF image
<1> HIDE DEF at
<1> QED
  BY <1>1, <1>4, <1>5, <1>6 DEF Apart

\* What a redaction says.
Redactions(rules) ==
  [kind : {rules[k].kind : k \in DOMAIN rules} \cup {"argv_secret"},
   pattern : {rules[k].marker : k \in DOMAIN rules} \cup {"argv"}, count : Nat]

\* What is accepted after the first k rules: places of the text that do not
\* touch, counted once each, and no match of a rule without one that it touches.
Accepted(text, rules, k, s) ==
  /\ IsFiniteSet(s.accepted) /\ Apart(s.accepted)
  /\ \A r \in s.accepted : /\ Placed(text, r)
                           /\ r.marker \in {rules[j].marker : j \in DOMAIN rules}
  /\ s.redactions \in Seq(Redactions(rules))
  /\ Counted(s.redactions) = Cardinality(s.accepted)
  /\ \A j \in 1 .. k : \A m \in FindRanges(text, rules[j]) : \E r \in s.accepted : Overlap(m, r)

LEMMA RuleAdds ==
  ASSUME NEW U, NEW text \in Seq(U), NEW rules, NEW k \in Nat, k + 1 \in DOMAIN rules,
         NEW s, Accepted(text, rules, k, s)
  PROVE  Accepted(text, rules, k + 1, AddRule(text, s, rules[k + 1]))
<1> DEFINE rule == rules[k + 1]
           old == s.accepted
           hits == {c \in FindRanges(text, rule) : \A t \in old : ~Overlap(c, t)}
           entry == [kind |-> rule.kind, pattern |-> rule.marker, count |-> Cardinality(hits)]
           redactions == IF hits = {} THEN s.redactions ELSE Append(s.redactions, entry)
           new == [accepted |-> old \cup hits, redactions |-> redactions]
<1>1. AddRule(text, s, rule) = new
  BY DEF AddRule
<1>2. /\ \A c \in FindRanges(text, rule) : Placed(text, c) /\ c.marker = rule.marker
      /\ Apart(FindRanges(text, rule)) /\ IsFiniteSet(FindRanges(text, rule))
  BY MatchesApart
<1>3. Len(text) \in Nat
  OBVIOUS
<1>4. \A c \in hits : c \in FindRanges(text, rule) /\ \A t \in old : ~Overlap(c, t)
  OBVIOUS
<1>5. IsFiniteSet(hits)
  BY <1>2, FS_Subset
<1> HIDE DEF hits
<1>6. \A c \in hits : Overlap(c, c)
  BY <1>2, <1>4 DEF Overlap, Placed
<1>7. old \cap hits = {}
  BY <1>4, <1>6
<1> HIDE DEF old
<1>8. /\ IsFiniteSet(old \cup hits) /\ Cardinality(hits) \in Nat
      /\ Cardinality(old \cup hits) = Cardinality(old) + Cardinality(hits)
  <2>1. IsFiniteSet(old)
    BY DEF Accepted, old
  <2>2. /\ IsFiniteSet(old \cup hits)
        /\ Cardinality(old \cup hits) = Cardinality(old) + Cardinality(hits) - Cardinality({})
    BY <1>5, <1>7, <2>1, FS_Union
  <2>3. Cardinality(old) \in Nat /\ Cardinality(hits) \in Nat /\ Cardinality({}) = 0
    BY <1>5, <2>1, FS_CardinalityType, FS_EmptySet
  <2> QED
    BY <2>2, <2>3
<1>9. Apart(old \cup hits)
  <2> SUFFICES ASSUME NEW a \in old \cup hits, NEW b \in old \cup hits, Overlap(a, b) PROVE a = b
    BY DEF Apart
  <2>1. CASE a \in old /\ b \in old
    BY <2>1 DEF Accepted, Apart, old
  <2>2. CASE a \in hits /\ b \in hits
    BY <1>2, <1>4, <2>2 DEF Apart
  <2>3. Overlap(b, a)
    BY DEF Overlap
  <2> QED
    BY <1>4, <2>1, <2>2, <2>3
<1>10. \A r \in old \cup hits : Placed(text, r) /\ r.marker \in {rules[j].marker : j \in DOMAIN rules}
  BY <1>2, <1>4 DEF Accepted, old
<1>11. redactions \in Seq(Redactions(rules)) /\ Counted(redactions) = Cardinality(old \cup hits)
  <2>1. s.redactions \in Seq(Redactions(rules)) /\ Counted(s.redactions) = Cardinality(old)
    BY DEF Accepted, old
  <2>2. CASE hits = {}
    BY <2>1, <2>2
  <2>3. CASE hits # {}
    <3>1. entry \in Redactions(rules) /\ \A r \in Redactions(rules) : r.count \in Nat
      BY <1>8 DEF Redactions
    <3>2. entry.count = Cardinality(hits)
      OBVIOUS
    <3> HIDE DEF entry
    <3>3. Counted(Append(s.redactions, entry)) = Counted(s.redactions) + entry.count
      BY <2>1, <3>1, CountOneMore
    <3> QED
      BY <1>8, <2>1, <2>3, <3>1, <3>2, <3>3
  <2> QED
    BY <2>2, <2>3
<1>12. ASSUME NEW j \in 1 .. k + 1, NEW m \in FindRanges(text, rules[j])
       PROVE  \E r \in old \cup hits : Overlap(m, r)
  <2>1. CASE j \in 1 .. k
    BY <1>12, <2>1 DEF Accepted, old
  <2>2. CASE j = k + 1
    <3>1. m \in hits \/ \E t \in old : Overlap(m, t)
      BY <1>12, <2>2 DEF hits
    <3> QED
      BY <1>6, <3>1
  <2> QED
    BY <2>1, <2>2
<1> HIDE DEF redactions
<1>13. new.accepted = old \cup hits /\ new.redactions = redactions
  OBVIOUS
<1> HIDE DEF new
<1> QED
  BY <1>1, <1>8, <1>9, <1>10, <1>11, <1>12, <1>13 DEF Accepted

LEMMA AcceptAll ==
  ASSUME NEW U, NEW text \in Seq(U), NEW V, NEW rules \in Seq(V)
  PROVE  Accepted(text, rules, Len(rules), Accept(text, rules))
<1> DEFINE n == Len(rules)
<1>1. n \in Nat /\ DOMAIN rules = 1 .. n
  OBVIOUS
<1>2. PICK g : /\ g[0] = NothingFound /\ Accept(text, rules) = g[n]
               /\ \A k \in 1 .. n : g[k] = AddRule(text, g[k - 1], rules[k])
  BY <1>1, AcceptByRule
<1> HIDE DEF n
<1> DEFINE T == {k \in Nat : k <= n => Accepted(text, rules, k, g[k])}
<1>3. 0 \in T
  <2>1. /\ IsFiniteSet({}) /\ Cardinality({}) = 0 /\ Counted(<<>>) = 0
        /\ <<>> \in Seq(Redactions(rules))
    BY FS_EmptySet, CountNone
  <2>2. NothingFound.accepted = {} /\ NothingFound.redactions = <<>> /\ 1 .. 0 = {}
    BY DEF NothingFound
  <2>3. Accepted(text, rules, 0, NothingFound)
    BY <2>1, <2>2 DEF Accepted, Apart
  <2> QED
    BY <1>2, <2>3
<1>4. ASSUME NEW k \in Nat, k \in T PROVE k + 1 \in T
  <2> SUFFICES ASSUME k + 1 <= n PROVE Accepted(text, rules, k + 1, g[k + 1])
    OBVIOUS
  <2>1. k + 1 \in 1 .. n /\ (k + 1) - 1 = k /\ k + 1 \in DOMAIN rules
    BY <1>1
  <2>2. g[k + 1] = AddRule(text, g[k], rules[k + 1])
    BY <1>2, <2>1
  <2>3. Accepted(text, rules, k, g[k])
    BY <1>1, <1>4
  <2> QED
    BY <2>1, <2>2, <2>3, RuleAdds
<1>5. n \in T
  <2> HIDE DEF T
  <2> QED
    BY <1>1, <1>3, <1>4, Induct
<1> QED
  BY <1>1, <1>2, <1>5 DEF n

\* A finite set of ranges that start at different places can be ordered.
LEMMA OrderedDown ==
  ASSUME NEW S, IsFiniteSet(S), \A r \in S : r.start \in Nat,
         \A a, b \in S : a.start = b.start => a = b
  PROVE  LET order == FromTheLast(S)
             n == Cardinality(S)
         IN  /\ n \in Nat /\ order \in [1 .. n -> S]
             /\ \A i, j \in 1 .. n : i < j => order[i].start > order[j].start
             /\ \A r \in S : \E i \in 1 .. n : order[i] = r
<1> DEFINE Down(s, n) == \A i, j \in 1 .. n : i < j => s[i].start > s[j].start
           T == {n \in Nat : \A X \in SUBSET S :
                               Cardinality(X) = n => \E s \in [1 .. n -> X] : Down(s, n)}
           n == Cardinality(S)
           order == FromTheLast(S)
<1>1. n \in Nat
  BY FS_CardinalityType
<1>2. 0 \in T
  <2>1. <<>> \in [1 .. 0 -> {}] /\ Down(<<>>, 0)
    OBVIOUS
  <2> HIDE DEF Down
  <2>2. ASSUME NEW X \in SUBSET S, Cardinality(X) = 0 PROVE \E s \in [1 .. 0 -> X] : Down(s, 0)
    <3>1. X = {}
      BY <2>2, FS_Subset, FS_EmptySet
    <3> QED
      BY <2>1, <3>1
  <2> QED
    BY <2>2
<1>3. ASSUME NEW m \in Nat, m \in T PROVE m + 1 \in T
  <2> SUFFICES ASSUME NEW X \in SUBSET S, Cardinality(X) = m + 1
               PROVE  \E s \in [1 .. m + 1 -> X] : Down(s, m + 1)
    OBVIOUS
  <2>1. IsFiniteSet(X)
    BY FS_Subset
  <2> DEFINE starts == {r.start : r \in X}
  <2>2. X # {}
    BY FS_EmptySet
  <2>3. PICK f \in starts : \A k \in starts : f <= k
    <3>1. starts \subseteq Nat /\ starts # {}
      BY <2>2
    <3> QED
      BY <3>1, Least
  <2>4. PICK x \in X : f = x.start
    OBVIOUS
  <2>5. IsFiniteSet(X \ {x}) /\ Cardinality(X \ {x}) = m
    <3>1. IsFiniteSet(X \ {x}) /\ Cardinality(X \ {x}) = Cardinality(X) - 1
      BY <2>1, FS_RemoveElement
    <3> QED
      BY <3>1
  <2>6. PICK s \in [1 .. m -> X \ {x}] : Down(s, m)
    BY <1>3, <2>5
  <2> DEFINE h == [i \in 1 .. m + 1 |-> IF i = m + 1 THEN x ELSE s[i]]
  <2>7. h \in [1 .. m + 1 -> X]
    OBVIOUS
  <2>8. Down(h, m + 1)
    <3> SUFFICES ASSUME NEW i \in 1 .. m + 1, NEW j \in 1 .. m + 1, i < j
                 PROVE  h[i].start > h[j].start
      OBVIOUS
    <3>1. i \in 1 .. m /\ h[i] = s[i]
      OBVIOUS
    <3>2. CASE j # m + 1
      BY <2>6, <3>1, <3>2
    <3>3. CASE j = m + 1
      <4>1. h[j] = x /\ s[i] \in X /\ s[i] # x
        BY <2>6, <3>1, <3>3
      <4>2. x.start <= s[i].start /\ x.start \in Nat /\ s[i].start \in Nat /\ x.start # s[i].start
        BY <2>3, <2>4, <4>1
      <4> QED
        BY <3>1, <4>1, <4>2
    <3> QED
      BY <3>2, <3>3
  <2> HIDE DEF h, Down
  <2> QED
    BY <2>7, <2>8
<1>4. n \in T
  <2> HIDE DEF T
  <2> QED
    BY <1>1, <1>2, <1>3, Induct
<1>5. \E s \in [1 .. n -> S] : Down(s, n)
  BY <1>4
<1>6. order \in [1 .. n -> S] /\ Down(order, n)
  BY <1>5 DEF FromTheLast
<1>7. ASSUME NEW r \in S PROVE \E i \in 1 .. n : order[i] = r
  <2>1. order \in Injection(1 .. n, S)
    <3>1. ASSUME NEW i \in 1 .. n, NEW j \in 1 .. n, order[i] = order[j] PROVE i = j
      <4>1. order[i].start \in Nat /\ order[j].start \in Nat
        BY <1>6
      <4>2. ~(i < j) /\ ~(j < i)
        BY <1>6, <3>1, <4>1
      <4> QED
        BY <1>1, <4>2
    <3> QED
      BY <1>6, <3>1 DEF Injection, IsInjective
  <2>2. IsFiniteSet(1 .. n) /\ Cardinality(1 .. n) = Cardinality(S)
    BY <1>1, FS_Interval
  <2>3. order \in Surjection(1 .. n, S)
    <3> DEFINE N == 1 .. n
    <3> HIDE DEF N, order
    <3> QED
      BY <2>1, <2>2, FS_Injection DEF N
  <2> QED
    BY <2>3 DEF Surjection
<1> QED
  BY <1>1, <1>6, <1>7

Associative(U) == \A x, y, z \in Seq(U) : (x \o y) \o z = x \o (y \o z)

LEMMA Associates == ASSUME NEW U PROVE Associative(U)
<1> SUFFICES ASSUME NEW x \in Seq(U), NEW y \in Seq(U), NEW z \in Seq(U)
             PROVE  (x \o y) \o z = x \o (y \o z)
  BY DEF Associative
<1> QED
  BY ConcatAssociative

KeepsFront(U, out, r, put) ==
  /\ put \in Seq(U) /\ r.start <= Len(put)
  /\ \A i \in 1 .. r.start : put[i] = out[i]
  /\ SubSeq(put, r.start + 1, Len(put)) = <<r.marker>> \o SubSeq(out, r.end + 1, Len(out))

\* A marker put in behind what is still as it was moves nothing of it, and leaves
\* what comes after it as it is.
LEMMA PutKeepsFront ==
  ASSUME NEW U, NEW out \in Seq(U), NEW r, r.marker \in U,
         r.start \in Nat, r.end \in Nat, r.start < r.end, r.end <= Len(out)
  PROVE  KeepsFront(U, out, r, PutMarker(out, r))
<1> DEFINE front == SubSeq(out, 1, r.start)
           mark == <<r.marker>>
           back == SubSeq(out, r.end + 1, Len(out))
           rest == mark \o back
           put == PutMarker(out, r)
           m == r.start
<1>1. /\ front \in Seq(U) /\ Len(front) = r.start /\ \A i \in 1 .. r.start : front[i] = out[i]
      /\ mark \in Seq(U) /\ back \in Seq(U) /\ Len(mark) = 1 /\ Len(back) \in Nat
  OBVIOUS
<1>2. put = (front \o mark) \o back
  BY DEF PutMarker
<1> HIDE DEF front, mark, back, put
<1>3. put = front \o rest /\ rest \in Seq(U) /\ Len(rest) \in Nat
  <2>1. front \in Seq(U) /\ mark \in Seq(U) /\ back \in Seq(U)
    BY <1>1
  <2>2. (front \o mark) \o back = front \o rest
    <3>1. Associative(U)
      BY Associates
    <3> QED
      BY <2>1, <3>1, Zenon DEF Associative
  <2>3. rest \in Seq(U)
    BY <2>1
  <2> HIDE DEF rest
  <2> QED
    BY <1>2, <2>2, <2>3
<1> HIDE DEF rest
<1>4. /\ put \in Seq(U) /\ Len(put) = m + Len(rest)
      /\ \A i \in 1 .. m + Len(rest) : put[i] = IF i <= m THEN front[i] ELSE rest[i - m]
  <2>1. /\ front \o rest \in Seq(U) /\ Len(front \o rest) = Len(front) + Len(rest)
        /\ \A i \in 1 .. Len(front) + Len(rest) :
             (front \o rest)[i] = IF i <= Len(front) THEN front[i] ELSE rest[i - Len(front)]
    BY <1>1, <1>3, ConcatProperties
  <2>2. Len(front) = m
    BY <1>1
  <2> HIDE DEF m
  <2> QED
    BY <1>3, <2>1, <2>2
<1>5. \A i \in 1 .. m : put[i] = out[i]
  BY <1>1, <1>3, <1>4
<1> DEFINE tail == SubSeq(put, m + 1, Len(put))
<1>6. tail = rest
  <2>1. \A i \in m + 1 .. Len(put) : put[i] \in U
    BY <1>4
  <2>4. m + 1 \in Int /\ Len(put) \in Int /\ Len(put) - (m + 1) + 1 = Len(rest)
    BY <1>3, <1>4
  <2>5. /\ tail \in Seq(U)
        /\ Len(tail) = IF m + 1 <= Len(put) THEN Len(put) - (m + 1) + 1 ELSE 0
        /\ \A i \in 1 .. Len(put) - (m + 1) + 1 : tail[i] = put[m + 1 + i - 1]
    <3> DEFINE a == m + 1
               b == Len(put)
    <3>1. a \in Int /\ b \in Int /\ \A i \in a .. b : put[i] \in U
      BY <2>1, <2>4
    <3> HIDE DEF a, b
    <3>2. /\ SubSeq(put, a, b) \in Seq(U)
          /\ Len(SubSeq(put, a, b)) = IF a <= b THEN b - a + 1 ELSE 0
          /\ \A i \in 1 .. b - a + 1 : SubSeq(put, a, b)[i] = put[a + i - 1]
      BY <3>1, SubSeqProperties
    <3> QED
      BY <3>2 DEF a, b
  <2> HIDE DEF tail
  <2>6. Len(tail) = Len(rest)
    BY <1>3, <1>4, <2>4, <2>5
  <2>7. \A i \in 1 .. Len(rest) : m + 1 + i - 1 = m + i
    BY <1>3
  <2>2. /\ tail \in Seq(U) /\ Len(tail) = Len(rest)
        /\ \A i \in 1 .. Len(rest) : tail[i] = put[m + i]
    BY <2>4, <2>5, <2>6, <2>7
  <2>3. \A i \in 1 .. Len(rest) : put[m + i] = rest[i]
    <3> SUFFICES ASSUME NEW i \in 1 .. Len(rest) PROVE put[m + i] = rest[i]
      OBVIOUS
    <3>1. m + i \in 1 .. m + Len(rest) /\ ~(m + i <= m) /\ (m + i) - m = i
      BY <1>3
    <3> QED
      BY <1>4, <3>1
  <2> HIDE DEF tail
  <2> QED
    BY <1>3, <2>2, <2>3, SeqEqual
<1>7. m <= Len(put)
  BY <1>3, <1>4
<1> QED
  BY <1>4, <1>5, <1>6, <1>7 DEF KeepsFront, rest, mark, back, put

\* What is as it was between two places is a part of the text.
LEMMA PartOfText ==
  ASSUME NEW U, NEW text \in Seq(U), NEW out \in Seq(U), NEW e \in Nat, NEW p \in Nat,
         e <= p, p <= Len(text), p <= Len(out), \A i \in 1 .. p : out[i] = text[i]
  PROVE  SubSeq(text, e + 1, p) \o SubSeq(out, p + 1, Len(out)) = SubSeq(out, e + 1, Len(out))
<1>1. SubSeq(text, e + 1, p) = SubSeq(out, e + 1, p)
  OBVIOUS
<1>2. Len(out) \in Nat /\ e + 1 \in 1 .. Len(out) + 1 /\ p \in (e + 1) - 1 .. Len(out)
      /\ Len(out) \in p .. Len(out)
  OBVIOUS
<1> QED
  BY <1>1, <1>2, ConcatAdjacentSubSeq

FromFront(U, text, ranges, F, n) ==
  /\ F \in [0 .. n -> Seq(U)] /\ F[0] = <<>> /\ ShownOf(text, ranges) = F[n]
  /\ \A r \in ranges : F[r.end] = F[r.start] \o <<r.marker>>
  /\ \A a, b \in 0 .. n :
       a <= b /\ (\A q \in ranges : q.end <= a \/ b <= q.start)
         => F[b] = F[a] \o SubSeq(text, a + 1, b)

\* What is shown of a text, from its front: a range is its marker, and what no
\* range touches is what it was.
LEMMA ShownFromFront ==
  ASSUME NEW U, NEW text \in Seq(U), NEW ranges, Apart(ranges),
         \A r \in ranges : Placed(text, r) /\ r.marker \in U
  PROVE  \E F : FromFront(U, text, ranges, F, Len(text))
<1> DEFINE n == Len(text)
           Unit(i) == IF \E r \in ranges : r.start = i - 1
                      THEN <<(CHOOSE r \in ranges : r.start = i - 1).marker>>
                      ELSE IF \E r \in ranges : r.start < i /\ i <= r.end THEN <<>> ELSE <<text[i]>>
           u == [i \in 1 .. n |-> Unit(i)]
<1>1. n \in Nat /\ DOMAIN text = 1 .. n /\ \A i \in 1 .. n : text[i] \in U
  OBVIOUS
<1>2. ShownOf(text, ranges) = FlattenSeq(u)
  BY <1>1 DEF ShownOf
<1>3. ASSUME NEW r \in ranges
      PROVE  /\ r.start \in Nat /\ r.end \in Nat /\ r.start < r.end /\ r.end <= n /\ r.marker \in U
  BY DEF Placed
<1>4. ASSUME NEW r \in ranges, NEW q \in ranges, q.start < r.end, r.start < q.end PROVE q = r
  BY <1>4 DEF Apart, Overlap
<1> HIDE DEF n
<1>5. ASSUME NEW r \in ranges PROVE Unit(r.start + 1) = <<r.marker>>
  <2> DEFINE c == CHOOSE q \in ranges : q.start = (r.start + 1) - 1
  <2>1. (r.start + 1) - 1 = r.start
    BY <1>3
  <2>2. c \in ranges /\ c.start = r.start
    BY <2>1
  <2> HIDE DEF c
  <2>3. c = r
    BY <1>3, <1>4, <2>2
  <2> QED
    BY <2>1, <2>3 DEF c
<1>6. ASSUME NEW r \in ranges, NEW i \in Nat, r.start + 1 < i, i <= r.end PROVE Unit(i) = <<>>
  <2>1. ASSUME NEW q \in ranges, q.start = i - 1 PROVE FALSE
    BY <1>3, <1>4, <1>6, <2>1
  <2>2. r.start < i
    BY <1>3, <1>6
  <2> QED
    BY <1>6, <2>1, <2>2
<1>7. ASSUME NEW i \in 1 .. n, \A q \in ranges : q.end < i \/ i <= q.start
      PROVE  Unit(i) = <<text[i]>>
  <2>1. ASSUME NEW q \in ranges, q.start = i - 1 \/ (q.start < i /\ i <= q.end) PROVE FALSE
    BY <1>3, <1>7, <2>1
  <2> QED
    BY <2>1
<1>8. ASSUME NEW i \in 1 .. n PROVE Unit(i) \in Seq(U)
  <2>1. CASE \E r \in ranges : r.start = i - 1
    <3>1. (CHOOSE r \in ranges : r.start = i - 1).marker \in U
      BY <1>3, <2>1
    <3> QED
      BY <2>1, <3>1
  <2>2. CASE ~\E r \in ranges : r.start = i - 1
    BY <1>1, <2>2
  <2> QED
    BY <2>1, <2>2
<1> HIDE DEF Unit
<1>9. u \in [1 .. n -> Seq(U)]
  BY <1>8
<1>10. PICK F : /\ F \in [0 .. n -> Seq(U)] /\ F[0] = <<>> /\ FlattenSeq(u) = F[n]
                /\ \A k \in 1 .. n : F[k] = F[k - 1] \o u[k]
  <2>1. n \in Nat /\ u \in [1 .. n -> Seq(U)]
    BY <1>1, <1>9
  <2> HIDE DEF u, n
  <2>2. PICK F : ByPart(U, n, u, F)
    BY <2>1, FlattenByPart
  <2> QED
    BY <2>2 DEF ByPart
<1>11. ASSUME NEW k \in Nat, k + 1 <= n
       PROVE  F[k + 1] = F[k] \o Unit(k + 1) /\ F[k] \in Seq(U) /\ F[k + 1] \in Seq(U)
  <2>1. k + 1 \in 1 .. n /\ (k + 1) - 1 = k /\ k \in 0 .. n /\ k + 1 \in 0 .. n
    BY <1>1, <1>11
  <2>2. F[k + 1] = F[k] \o u[k + 1]
    BY <1>10, <2>1
  <2> QED
    BY <1>10, <2>1, <2>2
<1>12. ASSUME NEW r \in ranges PROVE F[r.end] = F[r.start] \o <<r.marker>>
  <2> DEFINE s == r.start
             e == r.end
             T == {k \in Nat : s + 1 + k <= e => F[s + 1 + k] = F[s] \o <<r.marker>>}
  <2>1. s \in Nat /\ e \in Nat /\ s < e /\ e <= n
    BY <1>3
  <2>6. Unit(s + 1) = <<r.marker>> /\ \A i \in Nat : s + 1 < i /\ i <= e => Unit(i) = <<>>
    BY <1>5, <1>6
  <2> HIDE DEF s, e
  <2>2. 0 \in T
    <3>1. s + 1 + 0 = s + 1 /\ s + 1 <= n
      BY <1>1, <2>1
    <3> QED
      BY <1>11, <2>1, <2>6, <3>1
  <2>3. ASSUME NEW k \in Nat, k \in T PROVE k + 1 \in T
    <3> SUFFICES ASSUME s + 1 + (k + 1) <= e PROVE F[s + 1 + (k + 1)] = F[s] \o <<r.marker>>
      OBVIOUS
    <3> DEFINE i == s + 1 + k
    <3>1. i \in Nat /\ i + 1 <= n /\ s + 1 + (k + 1) = i + 1 /\ s + 1 < i + 1
          /\ i + 1 <= e /\ i <= e /\ i + 1 \in Nat
      BY <1>1, <2>1
    <3>2. F[i] = F[s] \o <<r.marker>>
      BY <2>3, <3>1
    <3>3. Unit(i + 1) = <<>>
      BY <2>6, <3>1
    <3> HIDE DEF i
    <3>4. F[i + 1] = F[i] \o <<>> /\ F[i] \in Seq(U)
      BY <1>11, <3>1, <3>3
    <3>5. F[i] \o <<>> = F[i]
      BY <3>4, ConcatEmptySeq
    <3> QED
      BY <3>1, <3>2, <3>4, <3>5
  <2>4. e - s - 1 \in T
    <3>1. e - s - 1 \in Nat
      BY <2>1
    <3> HIDE DEF T
    <3> QED
      BY <2>2, <2>3, <3>1, Induct
  <2>5. s + 1 + (e - s - 1) = e /\ e <= e
    BY <2>1
  <2>7. F[e] = F[s] \o <<r.marker>>
    BY <2>4, <2>5
  <2> QED
    BY <2>7 DEF s, e
<1>13. ASSUME NEW a \in 0 .. n, NEW b \in 0 .. n, a <= b, \A q \in ranges : q.end <= a \/ b <= q.start
       PROVE  F[b] = F[a] \o SubSeq(text, a + 1, b)
  <2> DEFINE Plain(k) == F[a + k] = F[a] \o SubSeq(text, a + 1, a + k)
             T == {k \in Nat : a + k <= b => Plain(k)}
  <2>1. a \in Nat /\ b \in Nat /\ b <= n
    BY <1>1
  <2>2. 0 \in T
    <3>1. a + 0 = a /\ SubSeq(text, a + 1, a) = <<>> /\ F[a] \in Seq(U)
      BY <1>10, <2>1, SubSeqEmpty
    <3>2. F[a] \o <<>> = F[a]
      BY <3>1, ConcatEmptySeq
    <3> QED
      BY <3>1, <3>2
  <2>3. ASSUME NEW k \in Nat, k \in T PROVE k + 1 \in T
    <3> SUFFICES ASSUME a + (k + 1) <= b PROVE Plain(k + 1)
      <4> HIDE DEF Plain
      <4> QED
        OBVIOUS
    <3> DEFINE i == a + k
               part == SubSeq(text, a + 1, i)
    <3>1. i \in Nat /\ i + 1 <= n /\ a + (k + 1) = i + 1 /\ i <= b /\ i + 1 <= b /\ i + 1 \in 1 .. n
          /\ a < i + 1
      BY <1>1, <2>1
    <3>2. F[i] = F[a] \o part
      BY <2>3, <3>1
    <3>3. Unit(i + 1) = <<text[i + 1]>>
      <4>1. ASSUME NEW q \in ranges PROVE q.end < i + 1 \/ i + 1 <= q.start
        BY <1>3, <1>13, <2>1, <3>1
      <4> QED
        BY <1>7, <3>1, <4>1
    <3>4. SubSeq(text, a + 1, i + 1) = part \o <<text[i + 1]>>
      <4>1. a + 1 \in 1 .. Len(text) /\ i + 1 \in a + 1 .. Len(text) /\ (i + 1) - 1 = i
        BY <2>1, <3>1 DEF n
      <4> HIDE DEF i
      <4> QED
        BY <4>1, SubSeqRecursiveSecond
    <3>5. part \in Seq(U) /\ F[a] \in Seq(U) /\ <<text[i + 1]>> \in Seq(U)
      <4>1. \A j \in a + 1 .. i : text[j] \in U
        BY <1>1, <2>1, <3>1
      <4>2. i \in Int /\ a + 1 \in Int
        BY <2>1, <3>1
      <4>3. text[i + 1] \in U
        BY <1>1, <3>1
      <4> HIDE DEF i
      <4>4. part \in Seq(U)
        BY <4>1, <4>2, SubSeqProperties
      <4> QED
        <5> DEFINE x == text[i + 1]
        <5>1. x \in U
          BY <4>3
        <5> HIDE DEF x
        <5>2. <<x>> \in Seq(U)
          BY <5>1
        <5>3. F[a] \in Seq(U)
          BY <1>10
        <5> HIDE DEF part
        <5> QED
          BY <4>4, <5>2, <5>3 DEF x
    <3> HIDE DEF i, part
    <3>6. F[i + 1] = F[i] \o <<text[i + 1]>>
      BY <1>11, <3>1, <3>3
    <3>7. (F[a] \o part) \o <<text[i + 1]>> = F[a] \o (part \o <<text[i + 1]>>)
      <4>1. Associative(U)
        BY Associates
      <4> QED
        BY <3>5, <4>1, Zenon DEF Associative
    <3> QED
      BY <3>1, <3>2, <3>4, <3>6, <3>7
  <2>4. b - a \in T
    <3>1. b - a \in Nat
      BY <1>13, <2>1
    <3> HIDE DEF T
    <3> QED
      BY <2>2, <2>3, <3>1, Induct
  <2>5. a + (b - a) = b
    BY <2>1
  <2>6. b <= b
    BY <2>1
  <2>7. a + (b - a) <= b => F[a + (b - a)] = F[a] \o SubSeq(text, a + 1, a + (b - a))
    BY <2>4
  <2> QED
    BY <2>5, <2>6, <2>7
<1> QED
  <2>1. FromFront(U, text, ranges, F, n)
    BY <1>2, <1>10, <1>12, <1>13 DEF FromFront
  <2> QED
    BY <2>1 DEF n

\* Ranges of a text that can be replaced one by one.
Replaceable(U, text, ranges) ==
  /\ text \in Seq(U) /\ IsFiniteSet(ranges) /\ Apart(ranges)
  /\ \A r \in ranges : Placed(text, r) /\ r.marker \in U

\* Replacing from the last range to the first shows what should be shown.
LEMMA SpliceShows ==
  ASSUME NEW U, NEW text, NEW ranges, Replaceable(U, text, ranges)
  PROVE  Splice(text, FromTheLast(ranges)) = ShownOf(text, ranges)
<1> DEFINE n == Len(text)
           m == Cardinality(ranges)
           order == FromTheLast(ranges)
           at(k) == IF k = 0 THEN n ELSE order[k].start
<1>0. text \in Seq(U) /\ Apart(ranges) /\ IsFiniteSet(ranges)
  BY DEF Replaceable
<1>1. n \in Nat /\ \A i \in 1 .. n : text[i] \in U
  BY <1>0
<1>2. ASSUME NEW r \in ranges
      PROVE  /\ r.start \in Nat /\ r.end \in Nat /\ r.start < r.end /\ r.end <= n /\ r.marker \in U
  BY DEF Placed, Replaceable
<1>3. ASSUME NEW r \in ranges, NEW q \in ranges, r # q PROVE r.end <= q.start \/ q.end <= r.start
  BY <1>0, <1>2, <1>3 DEF Apart, Overlap
<1>4. /\ m \in Nat /\ order \in [1 .. m -> ranges]
      /\ \A i, j \in 1 .. m : i < j => order[i].start > order[j].start
      /\ \A r \in ranges : \E i \in 1 .. m : order[i] = r
  <2>1. \A a, b \in ranges : a.start = b.start => a = b
    BY <1>2, <1>3
  <2>2. \A r \in ranges : r.start \in Nat
    BY <1>2
  <2> HIDE DEF m, order
  <2> QED
    BY <1>0, <2>1, <2>2, OrderedDown DEF m, order
<1> HIDE DEF n, m, order
<1>5. PICK F :
         /\ F \in [0 .. n -> Seq(U)] /\ F[0] = <<>> /\ ShownOf(text, ranges) = F[n]
         /\ \A r \in ranges : F[r.end] = F[r.start] \o <<r.marker>>
         /\ \A a, b \in 0 .. n :
              a <= b /\ (\A q \in ranges : q.end <= a \/ b <= q.start)
                => F[b] = F[a] \o SubSeq(text, a + 1, b)
  <2>1. \A r \in ranges : Placed(text, r) /\ r.marker \in U
    BY DEF Replaceable
  <2>2. PICK F : FromFront(U, text, ranges, F, n)
    BY <1>0, <2>1, ShownFromFront DEF n
  <2> QED
    BY <2>2 DEF FromFront
<1>6. PICK g : /\ g[0] = text /\ Splice(text, order) = g[m]
               /\ \A k \in 1 .. m : g[k] = PutMarker(g[k - 1], order[k])
  <2>1. m \in Nat /\ DOMAIN order = 1 .. m
    BY <1>4
  <2>2. PICK g : SplicedBy(g, text, order, m)
    BY <2>1, SpliceByRange
  <2> QED
    BY <2>2 DEF SplicedBy
<1>7. ASSUME NEW k \in 0 .. m
      PROVE  at(k) \in 0 .. n /\ \A q \in ranges : at(k) <= q.start \/ \E j \in 1 .. m : j > k /\ q = order[j]
  <2>1. CASE k = 0
    BY <1>1, <1>4, <2>1
  <2>2. CASE k # 0
    <3>1. k \in 1 .. m /\ order[k] \in ranges /\ at(k) = order[k].start
      BY <1>4, <2>2
    <3>4. order[k].start \in Nat /\ order[k].start <= n
      BY <1>1, <1>2, <3>1
    <3> HIDE DEF at
    <3>2. at(k) \in 0 .. n
      BY <1>1, <3>1, <3>4
    <3>3. ASSUME NEW q \in ranges PROVE at(k) <= q.start \/ \E j \in 1 .. m : j > k /\ q = order[j]
      <4>1. PICK j \in 1 .. m : order[j] = q
        BY <1>4
      <4>2. CASE j < k
        <5>1. order[j].start > order[k].start
          BY <1>4, <3>1, <4>2
        <5> QED
          BY <1>2, <3>1, <4>1, <5>1
      <4>3. CASE j = k
        BY <1>2, <3>1, <4>1, <4>3
      <4>4. CASE j > k
        BY <4>1, <4>4
      <4> QED
        BY <1>4, <4>2, <4>3, <4>4
    <3> QED
      BY <3>2, <3>3
  <2> QED
    BY <2>1, <2>2
<1> DEFINE Shows(k) == /\ g[k] \in Seq(U) /\ at(k) <= Len(g[k])
                       /\ \A i \in 1 .. at(k) : g[k][i] = text[i]
                       /\ F[n] = F[at(k)] \o SubSeq(g[k], at(k) + 1, Len(g[k]))
           T == {k \in Nat : k <= m => Shows(k)}
<1>8. Shows(0)
  <2>1. at(0) = n /\ g[0] = text /\ F[n] \in Seq(U)
    BY <1>1, <1>5, <1>6
  <2>5. text \in Seq(U)
    BY <1>0
  <2>2. SubSeq(text, n + 1, Len(text)) = <<>>
    <3>1. n + 1 \in Int /\ n \in Int /\ n < n + 1
      BY <1>1
    <3> QED
      BY <3>1, SubSeqEmpty DEF n
  <2>3. F[n] \o <<>> = F[n]
    BY <2>1, ConcatEmptySeq
  <2>4. n <= Len(text)
    BY <1>1 DEF n
  <2> QED
    BY <2>1, <2>2, <2>3, <2>4, <2>5
<1>9. ASSUME NEW k \in Nat, k + 1 <= m, Shows(k) PROVE Shows(k + 1)
  <2> DEFINE r == order[k + 1]
             out == g[k]
             p == at(k)
             s == r.start
             e == r.end
             put == PutMarker(out, r)
             back == SubSeq(out, e + 1, Len(out))
             rest == SubSeq(out, p + 1, Len(out))
             between == SubSeq(text, e + 1, p)
             mark == <<r.marker>>
  <2>1. k + 1 \in 1 .. m /\ k \in 0 .. m /\ k + 1 # 0 /\ (k + 1) - 1 = k /\ m \in Nat
    <3>1. m \in Nat
      BY <1>4
    <3> QED
      BY <1>9, <3>1
  <2>2. r \in ranges /\ g[k + 1] = put /\ at(k + 1) = s
    BY <1>4, <1>6, <2>1
  <2>3. /\ out \in Seq(U) /\ p <= Len(out) /\ F[n] = F[p] \o rest
        /\ \A i \in 1 .. p : out[i] = text[i]
    BY <1>9
  <2>4. p \in 0 .. n
    BY <1>7, <2>1
  <2>5. s \in Nat /\ e \in Nat /\ s < e /\ r.marker \in U /\ e <= n
    BY <1>2, <2>2
  <2>6. e <= p
    <3>1. CASE k = 0
      BY <2>5, <3>1
    <3>2. CASE k # 0
      <4>1. k \in 1 .. m /\ k < k + 1 /\ order[k] \in ranges /\ p = order[k].start
        BY <1>4, <2>1, <3>2
      <4>2. order[k].start > r.start
        BY <1>4, <2>1, <4>1
      <4>3. order[k] # r /\ order[k].end > order[k].start /\ order[k].start \in Nat /\ order[k].end \in Nat
        BY <1>2, <2>5, <4>1, <4>2
      <4>4. order[k].end <= r.start \/ r.end <= order[k].start
        BY <1>3, <2>2, <4>1, <4>3
      <4> QED
        BY <2>5, <4>1, <4>2, <4>3, <4>4
    <3> QED
      BY <3>1, <3>2
  <2>7. \A q \in ranges : q.end <= e \/ p <= q.start
    <3> SUFFICES ASSUME NEW q \in ranges, ~(p <= q.start) PROVE q.end <= e
      OBVIOUS
    <3>1. PICK j \in 1 .. m : j > k /\ q = order[j]
      BY <1>7, <2>1
    <3>2. CASE j = k + 1
      BY <2>5, <3>1, <3>2
    <3>3. CASE j > k + 1
      <4>1. r.start > q.start
        BY <1>4, <2>1, <3>1, <3>3
      <4>2. q # r /\ q.start \in Nat /\ q.end \in Nat
        BY <1>2, <2>5, <4>1
      <4>3. q.end <= r.start \/ r.end <= q.start
        BY <1>3, <2>2, <4>2
      <4> QED
        BY <2>5, <4>1, <4>2, <4>3
    <3> QED
      BY <2>1, <3>1, <3>2, <3>3
  <2>8. F[p] = F[e] \o between
    <3>1. e \in 0 .. n
      BY <1>1, <2>5
    <3> QED
      BY <1>5, <2>4, <2>6, <2>7, <3>1
  <2>9. F[e] = F[s] \o mark
    BY <1>5, <2>2
  <2>10. /\ put \in Seq(U) /\ s <= Len(put) /\ \A i \in 1 .. s : put[i] = out[i]
         /\ SubSeq(put, s + 1, Len(put)) = mark \o back
    <3>1. e <= Len(out)
      BY <2>3, <2>4, <2>5, <2>6
    <3>2. /\ out \in Seq(U) /\ r.marker \in U /\ r.start \in Nat /\ r.end \in Nat
          /\ r.start < r.end /\ r.end <= Len(out)
      BY <2>3, <2>5, <3>1
    <3> HIDE DEF r, out
    <3>3. KeepsFront(U, out, r, put)
      BY <3>2, PutKeepsFront
    <3> QED
      BY <3>3 DEF KeepsFront
  <2>11. between \o rest = back
    <3>1. p \in Nat /\ p <= Len(text)
      BY <1>1, <2>4 DEF n
    <3>2. /\ text \in Seq(U) /\ out \in Seq(U) /\ e \in Nat /\ e <= p /\ p <= Len(out)
          /\ \A i \in 1 .. p : out[i] = text[i]
      BY <1>0, <2>3, <2>5, <2>6
    <3> HIDE DEF p, out, e
    <3> QED
      BY <3>1, <3>2, PartOfText
  <2>12. /\ F[s] \in Seq(U) /\ mark \in Seq(U) /\ back \in Seq(U) /\ rest \in Seq(U)
         /\ between \in Seq(U) /\ F[e] \in Seq(U)
    <3>1. s \in 0 .. n /\ e \in 0 .. n /\ p <= n /\ p \in Nat
      BY <1>1, <2>4, <2>5
    <3>2. \A i \in 1 .. n : text[i] \in U
      BY <1>1
    <3>3. mark \in Seq(U)
      BY <2>5
    <3> HIDE DEF p, out, e, mark, s
    <3>4. between \in Seq(U)
      <4>3. \A i \in e + 1 .. p : i \in 1 .. n
        BY <1>1, <2>5, <3>1
      <4>1. \A i \in e + 1 .. p : text[i] \in U
        BY <3>2, <4>3
      <4>2. e + 1 \in Int /\ p \in Int
        BY <2>5, <3>1
      <4> QED
        BY <4>1, <4>2, SubSeqProperties
    <3>5. back \in Seq(U) /\ rest \in Seq(U)
      BY <2>3, <2>5, <3>1
    <3> QED
      BY <1>5, <3>1, <3>3, <3>4, <3>5
  <2>13. F[n] = F[s] \o (mark \o back)
    <3> HIDE DEF p, out, e, mark, s, back, rest, between
    <3> DEFINE fs == F[s]
               fe == F[e]
    <3>3. fe \in Seq(U) /\ between \in Seq(U) /\ rest \in Seq(U)
      BY <2>12
    <3>5. fs \in Seq(U) /\ mark \in Seq(U) /\ back \in Seq(U)
      BY <2>12
    <3> HIDE DEF fs, fe
    <3>4. Associative(U)
      BY Associates
    <3>1. (fe \o between) \o rest = fe \o (between \o rest)
      BY <3>3, <3>4, Zenon DEF Associative
    <3>2. (fs \o mark) \o back = fs \o (mark \o back)
      BY <3>4, <3>5, Zenon DEF Associative
    <3> QED
      BY <2>3, <2>8, <2>9, <2>11, <3>1, <3>2 DEF fs, fe
  <2>14. \A i \in 1 .. s : put[i] = text[i]
    <3>1. s < p /\ p \in Nat /\ s \in Nat
      BY <1>1, <2>4, <2>5, <2>6
    <3> HIDE DEF s, p, put, out
    <3>2. \A i \in 1 .. s : i \in 1 .. p
      BY <3>1
    <3> QED
      BY <2>3, <2>10, <3>2
  <2> HIDE DEF s, put, out, mark, back
  <2> QED
    BY <2>2, <2>10, <2>13, <2>14
<1>10. Shows(m)
  <2>1. 0 \in T
    BY <1>8
  <2>2. ASSUME NEW k \in Nat, k \in T PROVE k + 1 \in T
    <3> HIDE DEF Shows
    <3> SUFFICES ASSUME k + 1 <= m PROVE Shows(k + 1)
      OBVIOUS
    <3>1. k <= m
      BY <1>4
    <3> QED
      BY <1>9, <2>2, <3>1
  <2>3. m \in T
    <3> HIDE DEF T
    <3> QED
      BY <1>4, <2>1, <2>2, Induct
  <2> HIDE DEF Shows
  <2> QED
    BY <1>4, <2>3
<1>11. F[n] = g[m]
  <2> DEFINE out == g[m]
             p == at(m)
  <2>1. m \in 0 .. m /\ p \in 0 .. n
    BY <1>4, <1>7
  <2>2. \A q \in ranges : q.end <= 0 \/ p <= q.start
    BY <1>4, <1>7, <2>1
  <2>3. F[p] = F[0] \o SubSeq(text, 0 + 1, p)
    <3>1. 0 \in 0 .. n /\ 0 <= p
      BY <1>1, <2>1
    <3> HIDE DEF p
    <3> QED
      BY <1>5, <2>1, <2>2, <3>1
  <2>4. /\ out \in Seq(U) /\ p <= Len(out) /\ F[n] = F[p] \o SubSeq(out, p + 1, Len(out))
        /\ \A i \in 1 .. p : out[i] = text[i]
    BY <1>10
  <2> HIDE DEF out, p
  <2>5. p \in Nat /\ p <= Len(text) /\ 0 \in Nat /\ 0 <= p
    BY <1>1, <2>1 DEF n
  <2>6. SubSeq(text, 0 + 1, p) \o SubSeq(out, p + 1, Len(out)) = SubSeq(out, 0 + 1, Len(out))
    BY <1>0, <2>4, <2>5, PartOfText
  <2>7. SubSeq(out, 0 + 1, Len(out)) = out
    BY <2>4, SubSeqFull
  <2>8. F[p] = SubSeq(text, 0 + 1, p)
    <3>1. \A i \in 0 + 1 .. p : text[i] \in U
      BY <1>0, <2>5
    <3>2. SubSeq(text, 0 + 1, p) \in Seq(U)
      <4>1. 0 + 1 \in Int /\ p \in Int
        BY <2>5
      <4> QED
        BY <3>1, <4>1, SubSeqProperties
    <3> QED
      BY <1>5, <2>3, <3>2, ConcatEmptySeq
  <2> QED
    BY <2>4, <2>6, <2>7, <2>8 DEF out
<1> QED
  BY <1>5, <1>6, <1>11 DEF order

\* A fixture that was just captured: what the sanitizer promises of its text and
\* of its arguments.
LEMMA CapturedIsRedacted ==
  ASSUME NEW text \in Printed, NEW args \in Args PROVE Redacted(Captured(text, args))
<1> DEFINE file == Captured(text, args)
           found == Accept(text, Rules)
           ranges == found.accepted
           markers == {Rules[j].marker : j \in DOMAIN Rules}
           U == ToSet(text) \cup markers
           secret == {i \in DOMAIN args : args[i].secret}
           entry == [kind |-> "argv_secret", pattern |-> "argv", count |-> Cardinality(secret)]
           shown == [i \in DOMAIN args |-> IF i \in secret THEN [args[i] EXCEPT !.value = "redacted"]
                                           ELSE args[i]]
           all == found.redactions \o (IF secret = {} THEN <<>> ELSE <<entry>>)
<1>1. /\ text \in Seq(ToSet(text)) /\ Rules \in Seq(ToSet(Rules)) /\ args \in Seq(ToSet(args))
      /\ \A i \in DOMAIN args : {"name", "value", "secret"} \subseteq DOMAIN args[i]
  BY TextsAssumption
<1>2. /\ file.printed = text /\ file.given = args /\ file.stdout = Splice(text, FromTheLast(ranges))
      /\ file.args = shown /\ file.redactions = all
      /\ SanitizeText(text, Rules).ranges = ranges
  BY DEF Captured, SanitizeText, SanitizeArgs
<1>3. text \in Seq(U)
  <2>1. ToSet(text) \subseteq U
    OBVIOUS
  <2> HIDE DEF U
  <2> QED
    BY <1>1, <2>1, SeqMonotonic
<1>4. Accepted(text, Rules, Len(Rules), found)
  BY <1>1, AcceptAll
<1>5. DOMAIN Rules = 1 .. Len(Rules)
  BY <1>1
<1> HIDE DEF file, found, entry, shown, all
<1>6. Splice(text, FromTheLast(ranges)) = ShownOf(text, ranges)
  <2>1. Replaceable(U, text, ranges)
    BY <1>3, <1>4 DEF Accepted, Replaceable
  <2> QED
    BY <2>1, SpliceShows
<1>7. \A m \in UNION {FindRanges(text, Rules[k]) : k \in DOMAIN Rules} : \E r \in ranges : Overlap(m, r)
  BY <1>4, <1>5 DEF Accepted
<1>8. ASSUME NEW i \in DOMAIN args
      PROVE  /\ shown[i].name = args[i].name
             /\ shown[i].value = IF args[i].secret THEN "redacted" ELSE args[i].value
  <2>1. {"name", "value"} \subseteq DOMAIN args[i]
    BY <1>1
  <2>2. CASE args[i].secret
    <3>1. shown[i] = [args[i] EXCEPT !.value = "redacted"]
      BY <2>2 DEF shown
    <3> QED
      BY <2>1, <2>2, <3>1
  <2>3. CASE ~args[i].secret
    BY <2>3 DEF shown
  <2> QED
    BY <2>2, <2>3
<1>9. Counted(all) = Cardinality(ranges) + Cardinality(secret)
  <2>1. IsFiniteSet(secret)
    <3>1. IsFiniteSet(1 .. Len(args)) /\ DOMAIN args = 1 .. Len(args)
      BY <1>1, FS_Interval
    <3> QED
      BY <3>1, FS_Subset
  <2> HIDE DEF secret
  <2>2. Cardinality(secret) \in Nat /\ (secret = {} => Cardinality(secret) = 0)
    BY <2>1, FS_CardinalityType, FS_EmptySet
  <2>3. /\ found.redactions \in Seq(Redactions(Rules)) /\ IsFiniteSet(ranges)
        /\ Counted(found.redactions) = Cardinality(ranges)
    BY <1>4 DEF Accepted
  <2>4. Cardinality(ranges) \in Nat
    BY <2>3, FS_CardinalityType
  <2>5. CASE secret = {}
    <3>1. all = found.redactions
      BY <2>3, <2>5, ConcatEmptySeq DEF all
    <3> QED
      BY <2>2, <2>3, <2>4, <2>5, <3>1
  <2>6. CASE secret # {}
    <3>1. entry \in Redactions(Rules) /\ entry.count = Cardinality(secret)
      BY <2>2 DEF Redactions, entry
    <3>2. \A r \in Redactions(Rules) : r.count \in Nat
      BY DEF Redactions
    <3>3. all = Append(found.redactions, entry)
      BY <2>3, <2>6, <3>1, AppendIsConcat DEF all
    <3>4. Counted(Append(found.redactions, entry)) = Counted(found.redactions) + entry.count
      BY <2>3, <3>1, <3>2, CountOneMore
    <3> QED
      BY <2>3, <3>1, <3>3, <3>4
  <2> QED
    BY <2>5, <2>6
<1> QED
  BY <1>2, <1>6, <1>7, <1>8, <1>9 DEF Redacted, file

\* What a person may change of a fixture is what was expected of it.
RedactInv ==
  \A f \in DOMAIN fixtures : fixtures[f].kind = "manifest" =>
    /\ {"kind", "printed", "given", "stdout", "args", "redactions"} \subseteq DOMAIN fixtures[f]
    /\ Redacted(fixtures[f])

LEMMA RedactNext == ASSUME RedactInv, [Next]_vars PROVE RedactInv'
<1>1. ASSUME UNCHANGED fixtures PROVE RedactInv'
  BY <1>1 DEF RedactInv
<1>2. ASSUME NEW new, NEW file, fixtures' = With(fixtures, file, new),
             new.kind = "manifest" =>
               /\ {"kind", "printed", "given", "stdout", "args", "redactions"} \subseteq DOMAIN new
               /\ Redacted(new)
      PROVE  RedactInv'
  <2>1. /\ DOMAIN fixtures' = DOMAIN fixtures \cup {file}
        /\ \A f \in DOMAIN fixtures' : fixtures'[f] = IF f = file THEN new ELSE fixtures[f]
    BY <1>2 DEF With
  <2> QED
    BY <1>2, <2>1 DEF RedactInv
<1>11. ASSUME NEW cmd \in Commands, NEW text \in Printed, NEW args \in Args, Capture(cmd, text, args)
       PROVE  RedactInv'
  <2> DEFINE new == Captured(text, args)
  <2>1. /\ {"kind", "printed", "given", "stdout", "args", "redactions"} \subseteq DOMAIN new
        /\ Redacted(new)
    BY CapturedIsRedacted DEF Captured
  <2>2. fixtures' = With(fixtures, <<cmd, clock>>, new)
    BY <1>11 DEF Capture, Put
  <2> HIDE DEF new
  <2> QED
    BY <1>2, <2>1, <2>2
<1>12. ASSUME NEW cmd \in Commands, CaptureFailed(cmd) PROVE RedactInv'
  <2>1. fixtures' = With(fixtures, <<cmd, clock>>, [kind |-> "invalid"])
    BY <1>12 DEF CaptureFailed, Put
  <2> QED
    BY <1>2, <2>1
<1>3. ASSUME NEW file \in DOMAIN fixtures, Spoil(file) PROVE RedactInv'
  <2>1. PICK kind \in {"no_json", "no_manifest", "invalid"} :
          fixtures' = [fixtures EXCEPT ![file] = [kind |-> kind]]
    BY <1>3 DEF Spoil
  <2>2. /\ DOMAIN fixtures' = DOMAIN fixtures /\ fixtures'[file].kind # "manifest"
        /\ \A f \in DOMAIN fixtures : f # file => fixtures'[f] = fixtures[f]
    BY <2>1
  <2> QED
    BY <2>2 DEF RedactInv
<1>4. ASSUME NEW file \in DOMAIN fixtures, NEW e \in Expectations, WriteExpected(file, e)
      PROVE  RedactInv'
  <2> DEFINE new == [fixtures[file] EXCEPT !.expected = e]
  <2>1. fixtures[file].kind = "manifest" /\ fixtures' = [fixtures EXCEPT ![file] = new]
    BY <1>4 DEF WriteExpected
  <2>2. /\ {"kind", "printed", "given", "stdout", "args", "redactions"} \subseteq DOMAIN new
        /\ Redacted(new)
    <3>1. /\ {"kind", "printed", "given", "stdout", "args", "redactions"} \subseteq DOMAIN fixtures[file]
          /\ Redacted(fixtures[file])
      BY <2>1 DEF RedactInv
    <3>2. /\ DOMAIN new = DOMAIN fixtures[file]
          /\ new.printed = fixtures[file].printed /\ new.given = fixtures[file].given
          /\ new.stdout = fixtures[file].stdout /\ new.args = fixtures[file].args
          /\ new.redactions = fixtures[file].redactions
      BY <3>1
    <3> HIDE DEF new
    <3> QED
      BY <3>1, <3>2 DEF Redacted
  <2> HIDE DEF new
  <2>3. /\ DOMAIN fixtures' = DOMAIN fixtures /\ fixtures'[file] = new
        /\ \A f \in DOMAIN fixtures : f # file => fixtures'[f] = fixtures[f]
    BY <2>1
  <2> QED
    BY <2>1, <2>2, <2>3 DEF RedactInv
<1>5. ASSUME NEW version \in Readers, Upgrade(version) PROVE UNCHANGED fixtures
  BY <1>5 DEF Upgrade
<1>6. ASSUME NEW p \in Adders,
             \/ ReadPackName(p) \/ StartCopy(p) \/ BeginFile(p) \/ EndFile(p) \/ FinishCopy(p)
             \/ ReadRegistry(p) \/ EmptyRegistry(p) \/ WriteRegistry(p) \/ Kill(p)
      PROVE  UNCHANGED fixtures
  BY <1>6 DEF ReadPackName, StartCopy, BeginFile, EndFile, FinishCopy, ReadRegistry,
     EmptyRegistry, WriteRegistry, Kill
<1>7. CASE Tick
  BY <1>1, <1>7 DEF Tick
<1>8. ASSUME NEW as \in Loadings, StartServer(as) \/ Test(as) PROVE UNCHANGED fixtures
  BY <1>8 DEF StartServer, Test, disk
<1>9. CASE Judging
  BY <1>1, <1>9 DEF Judging, Evaluate, disk
<1>10. CASE UNCHANGED vars
  BY <1>1, <1>10 DEF vars
<1> QED
  BY <1>1, <1>3, <1>4, <1>5, <1>6, <1>7, <1>8, <1>9, <1>10, <1>11, <1>12 DEF Next, Working

\* What a fixture keeps of an output is the output with every accepted range
\* replaced by its marker where it was, whatever the rules, the text and the
\* order in which the ranges are found: no replacement moves another, each match
\* of a rule overlaps a place that is hidden, and the redactions count what was
\* hidden (sanitizeText and sanitizeArgs, fixtures/sanitize.ts). It does not say
\* that all of a match is hidden: one that begins inside an earlier rule's is
\* dropped, and what of it lies outside stays to be read.
THEOREM CaptureRedacts == Spec => []RedactsInPlace
<1>1. Init => RedactInv
  BY DEF Init, RedactInv, Nothing
<1>2. RedactInv /\ [Next]_vars => RedactInv'
  BY RedactNext
<1>3. RedactInv => RedactsInPlace
  BY DEF RedactInv, RedactsInPlace
<1> QED
  BY <1>1, <1>2, <1>3, PTL DEF Spec

=============================================================================
