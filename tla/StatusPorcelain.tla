--------------------------- MODULE StatusPorcelain ---------------------------
(***************************************************************************)
(* The parser of git status --porcelain=v1 (parsers/git/status-porcelain.ts),*)
(* whose rows carry the place each field was read from. A record is two     *)
(* status letters, a space and a path; with -z records end with a NUL and   *)
(* the original path of a rename is the next record, without it they end    *)
(* with a newline, paths may be quoted and a rename is "from -> to". The    *)
(* arrow with its spaces is one unit here.                                  *)
(***************************************************************************)
EXTENDS CQuotes

Arrow == " -> "
Blank == " "
Marks == {"M", "R", "C", "A", "?", Blank}     \* the status letters

Str(text) == [type |-> "string", text |-> text]

\* span: a place is a position in the whole output, line 0.
Spot(start, end, quoted) ==
  [line |-> 0, start |-> start, end |-> end, transform |-> IF quoted THEN "unescape_c_quotes" ELSE ""]

\* The record that starts after at units, and where the one after it starts.
RecordAt(text, sep, at) ==
  LET end == Min({i \in at + 1 .. Len(text) : text[i] = sep} \cup {Len(text) + 1})
  IN  [at |-> at, text |-> SubSeq(text, at + 1, end - 1), next |-> end]

\* readPathIn: the path in the interval [start, end) of a record.
ReadPathIn(text, start, end) ==
  LET read == ReadQuotedToken(text, start)
  IN  IF end <= start THEN [ok |-> FALSE]
      ELSE IF text[start + 1] # Quote
           THEN [ok |-> TRUE, value |-> SubSeq(text, start + 1, end), quoted |-> FALSE,
                 start |-> start, end |-> end]
      ELSE IF ~read.ok \/ read.end > end THEN [ok |-> FALSE]
      ELSE [ok |-> TRUE, value |-> read.value, quoted |-> TRUE, start |-> start, end |-> read.end]

\* Where the scan for the arrow stands after each unit: outside quotes, in
\* them, or after a backslash in them.
Quoting(text) ==
  LET After(state, unit) ==
        IF state = "escaped" THEN "in"
        ELSE IF unit = Quote THEN IF state = "in" THEN "out" ELSE "in"
        ELSE IF state = "in" /\ unit = Backslash THEN "escaped" ELSE state
      state[i \in 0 .. Len(text)] == IF i = 0 THEN "out" ELSE After(state[i - 1], text[i])
  IN  state

\* lastArrowOutsideQuotes: the last arrow that is not inside quotes, 0 if none.
ArrowAnywhere(text) == \* mutant: quotes are not heeded
  Max({0} \cup {i \in 1 .. Len(text) : text[i] = Arrow})
LastArrow(text) ==
  Max({0} \cup {i \in 1 .. Len(text) : text[i] = Arrow /\ Quoting(text)[i - 1] = "out"})

\* One row: the path, the original path of a rename, and their places; base is
\* where the record starts, from where the original path does.
FieldsOf(named) == {"xy", "path"} \cup IF named THEN {"orig_path"} ELSE {}
Entry(record, next, orig, from) ==
  LET base == record.at + 3
  IN  [row   |-> [f \in FieldsOf(orig # <<>>) |->
                    Str(CASE f = "xy"   -> SubSeq(record.text, 1, 2)
                          [] f = "path" -> next.value
                          [] OTHER      -> orig.value)],
       spans |-> [f \in FieldsOf(orig # <<>>) |->
                    CASE f = "xy"   -> Spot(record.at, record.at + 2, FALSE)
                      [] f = "path" -> Spot(base + next.start, base + next.end, next.quoted)
                      [] OTHER      -> Spot(from + orig.start, from + orig.end, orig.quoted)]]

IsRename(text) == text[1] \in {"R", "C"} \/ text[2] \in {"R", "C"}

IsRecord(text) == Len(text) > 3 /\ text[3] = Blank /\ {text[1], text[2]} \subseteq Marks

Rest(record) == SubSeq(record.text, 4, Len(record.text))

\* What a record gives, and where the reader goes on.
None(record) == [entries |-> <<>>, next |-> record.next]
One(entry, next) == [entries |-> <<entry>>, next |-> next]

\* A rename on one line: "from -> to".
Renamed(record, rest, arrow) ==
  LET left  == ReadPathIn(rest, 0, arrow - 1)
      right == ReadPathIn(rest, arrow, Len(rest))
  IN  IF arrow > 0 /\ left.ok /\ right.ok
      THEN One(Entry(record, right, left, record.at + 3), record.next) ELSE None(record)

\* Any other record; a rename takes the record after it, if that is not empty.
Plainly(record, path, follows) ==
  IF ~path.ok THEN None(record)
  ELSE IF IsRename(record.text) /\ follows.text # <<>>
       THEN One(Entry(record, path, [value |-> follows.text, quoted |-> FALSE,
                                     start |-> 0, end |-> Len(follows.text)], follows.at),
                follows.next)
       ELSE One(Entry(record, path, <<>>, 0), record.next)

ReadRecord(record, follows, nul) ==
  IF ~IsRecord(record.text) THEN None(record)
  ELSE IF IsRename(record.text) /\ ~nul
       THEN Renamed(record, Rest(record), LastArrow(Rest(record)))
       ELSE Plainly(record, ReadPathIn(Rest(record), 0, Len(record.text) - 3), follows)

\* What the records from a position on give; a record that is none is skipped.
EntriesFrom(text, nul) ==
  LET sep == IF nul THEN "NUL" ELSE "\n"
      ReadAt(at) == LET record == RecordAt(text, sep, at)
                    IN  ReadRecord(record, RecordAt(text, sep, record.next), nul)
      from[at \in 0 .. Len(text) + 1] ==
        IF at >= Len(text) THEN <<>>
        ELSE LET read == ReadAt(at) IN read.entries \o from[read.next]
  IN  from

\* parseGitStatusPorcelain without its cap.
ParseStatus(text, nul) == EntriesFrom(text, nul)[0]

----------------------------------------------------------------------------
(* What git status --porcelain=v1 prints, as its reader takes it for       *)
(* granted (external; lines 4-19 of the parser). A row is a function from  *)
(* its fields to texts.                                                    *)

Separator(nul) == IF nul THEN "NUL" ELSE "\n"

\* A unit that has an escape is printed with it.
Escaped(c) ==
  IF c \in Range(Escapes) THEN <<Backslash, CHOOSE e \in DOMAIN Escapes : Escapes[e] = c>> ELSE <<c>>

CQuoted(path) == <<Quote>> \o FlattenSeq([i \in DOMAIN path |-> Escaped(path[i])]) \o <<Quote>>

\* Paths are quoted only between newlines, when they hold a blank or a unit
\* that has an escape.
Shown(path, nul) ==
  IF nul \/ ToSet(path) \cap ({Blank, Arrow} \cup Range(Escapes)) = {} THEN path ELSE CQuoted(path)

PrintRow(e, nul) ==
  LET end == <<Separator(nul)>>
      old == Shown(e["orig_path"].text, nul)
      new == Shown(e["path"].text, nul)
  IN  e["xy"].text \o <<Blank>> \o
        (IF "orig_path" \notin DOMAIN e THEN new \o end
         ELSE IF nul THEN new \o end \o old \o end
         ELSE old \o <<Arrow>> \o new \o end)

PrintRows(rows, nul) == FlattenSeq([i \in DOMAIN rows |-> PrintRow(rows[i], nul)])

IsList(s) == s \in Seq(ToSet(s))

\* A row git may print. With -z no path begins with a quote: the reader takes
\* such a path for a quoted one (RowsAreTrue does not hold of it).
IsRow(e, nul) ==
  LET named == "orig_path" \in DOMAIN e
  IN  /\ e = [f \in FieldsOf(named) |-> Str(e[f].text)]
      /\ Len(e["xy"].text) = 2 /\ ToSet(e["xy"].text) \subseteq Marks
      /\ named <=> IsRename(e["xy"].text)
      /\ \A f \in DOMAIN e : IsList(e[f].text) /\ e[f].text # <<>> /\ "NUL" \notin ToSet(e[f].text)
      /\ nul => e["path"].text[1] # Quote

\* A text of which no line looks like a row.
HasNoRecord(text, nul) ==
  /\ IsList(text)
  /\ \A at \in 0 .. Len(text) : at = 0 \/ text[at] = Separator(nul) =>
       ~IsRecord(RecordAt(text, Separator(nul), at).text)

\* What the command prints: its rows, or something else that has none.
IsOutput(out) ==
  /\ out.nul \in BOOLEAN
  /\ \/ /\ IsList(out.rows) /\ \A i \in DOMAIN out.rows : IsRow(out.rows[i], out.nul)
        /\ out.text = PrintRows(out.rows, out.nul)
     \/ out.rows = <<>> /\ HasNoRecord(out.text, out.nul)

=============================================================================
