---------------------------- MODULE RecordLines -----------------------------
(***************************************************************************)
(* crates/crossscp-config/src/lib.rs: the text of the session file.  One   *)
(* line per record, fields escaped and joined by tabs, below a comment     *)
(* line; read by lines, split at tabs, unescaped.  The file of known hosts *)
(* (crates/crossscp-protocol-sftp/src/lib.rs) has the same form with fewer *)
(* fields.  A record is a sequence of texts, a text one of characters, and *)
(* an absent option the empty text.                                        *)
(***************************************************************************)
EXTENDS Naturals, Sequences, SequencesExt, Selection, Texts

CONSTANTS
  Fields,   \* fields of a record
  Saves     \* bound: sequences of records that are in the file

VARIABLES
  saved,   \* the records
  kept,    \* how many characters of the file are there
  read,    \* whether the file has been parsed
  loaded   \* what parsing returned: [ok, records]

vars == <<saved, kept, read, loaded>>

Blanks == {" ", "\t", "\n", "\r"}
IsBlank(text) == \A i \in DOMAIN text : text[i] \in Blanks

-----------------------------------------------------------------------------

Replace(text, char, by) ==
  FlattenSeq([i \in DOMAIN text |-> IF text[i] = char THEN by ELSE <<text[i]>>])

\* Faulty variant of Escape: backslashes last.
EscapeLast(text) ==
  Replace(Replace(Replace(text, "\t", <<"\\", "t">>), "\n", <<"\\", "n">>), "\\", <<"\\", "\\">>)

Escape(text) ==
  Replace(Replace(Replace(text, "\\", <<"\\", "\\">>), "\t", <<"\\", "t">>), "\n", <<"\\", "n">>)

Escaped == [c \in {"\\", "t", "n"} |-> IF c = "t" THEN "\t" ELSE IF c = "n" THEN "\n" ELSE c]

\* The loop of unescape: "pending" after a backslash; an unknown escape and a
\* backslash at the end are errors.
TakeChar(s, c) ==
  CASE ~s.pending /\ c = "\\" -> [s EXCEPT !.pending = TRUE]
    [] ~s.pending /\ c # "\\" -> [s EXCEPT !.out = Append(@, c)]
    [] s.pending /\ c \in DOMAIN Escaped -> [s EXCEPT !.out = Append(@, Escaped[c]), !.pending = FALSE]
    [] s.pending /\ c \notin DOMAIN Escaped -> [s EXCEPT !.ok = FALSE, !.pending = FALSE]

Taken(text) ==
  LET state[i \in 0..Len(text)] ==
        IF i = 0 THEN [out |-> <<>>, pending |-> FALSE, ok |-> TRUE]
        ELSE TakeChar(state[i - 1], text[i])
  IN state[Len(text)]

Unescape(text) == LET end == Taken(text) IN [text |-> end.out, ok |-> end.ok /\ ~end.pending]

Join(texts) ==
  FlattenSeq([i \in DOMAIN texts |-> IF i = 1 THEN texts[i] ELSE <<"\t">> \o texts[i]])

Line(record) == Join([i \in DOMAIN record |-> Escape(record[i])]) \o <<"\n">>

Header == <<"#", "\n">>

Render(records) == Header \o FlattenSeq([i \in DOMAIN records |-> Line(records[i])])

\* str::lines: a carriage return before the end of a line goes with it, and
\* what follows the last end of line is a line unless it is empty.
Trimmed(line) == IF line # <<>> /\ Last(line) = "\r" THEN Front(line) ELSE line

Lines(text) ==
  LET parts == Split(text, "\n")
      lines == [i \in DOMAIN parts |-> IF i < Len(parts) THEN Trimmed(parts[i]) ELSE parts[i]]
  IN IF Last(parts) = <<>> THEN Front(lines) ELSE lines

IsComment(line) == IsBlank(line) \/ line[1] = "#"

Validates(record) == ~IsBlank(record[1])

Parse(text) ==
  LET all == Lines(text)
      lines == Select(all, {line \in ToSet(all) : ~IsComment(line)})
      fields == [i \in DOMAIN lines |-> LET f == Split(lines[i], "\t")
                                        IN [k \in DOMAIN f |-> Unescape(f[k])]]
      records == [i \in DOMAIN fields |-> [k \in DOMAIN fields[i] |-> fields[i][k].text]]
      ok == \A i \in DOMAIN lines :
              /\ Len(fields[i]) = Fields
              /\ \A k \in DOMAIN fields[i] : fields[i][k].ok
              /\ Validates(records[i])
  IN [ok |-> ok, records |-> IF ok THEN records ELSE <<>>]

-----------------------------------------------------------------------------

File == Render(saved)

Init ==
  /\ saved \in Saves
  /\ \A i \in DOMAIN saved : Validates(saved[i])
  /\ kept = Len(File)
  /\ read = FALSE /\ loaded = [ok |-> FALSE, records |-> <<>>]

\* A write that breaks off (fs::write truncates the file first).
Cut ==
  /\ ~read /\ kept > 0
  /\ kept' = kept - 1
  /\ UNCHANGED <<saved, read, loaded>>

Load ==
  /\ ~read /\ read' = TRUE
  /\ loaded' = Parse(SubSeq(File, 1, kept))
  /\ UNCHANGED <<saved, kept>>

Next == Cut \/ Load
Spec == Init /\ [][Next]_vars

-----------------------------------------------------------------------------

\* What the format cannot hold: a first field that makes the line a comment,
\* and a carriage return at the end of the last field.
Holds(record) == record[1][1] # "#" /\ (record[Fields] = <<>> \/ Last(record[Fields]) # "\r")

\* A whole file gives back the records, whatever tabs, line ends and
\* backslashes are in their texts.
RoundTrip ==
  loaded.ok /\ kept = Len(File) /\ (\A i \in DOMAIN saved : Holds(saved[i])) =>
    loaded.records = saved

\* A whole file can be read, also with the records that get lost.
WholeFileLoads == read /\ kept = Len(File) => loaded.ok

\* What a file that was cut gives back, if anything, are the first of the
\* records; only of the last one, the end of the last field may be missing.
CutLosesTheEnd ==
  loaded.ok /\ (\A i \in DOMAIN saved : Holds(saved[i])) =>
    LET n == Len(loaded.records) IN
    /\ n <= Len(saved)
    /\ \A i \in 1..n : \A k \in 1..Fields :
         \/ loaded.records[i][k] = saved[i][k]
         \/ i = n /\ k = Fields /\ IsPrefix(loaded.records[i][k], saved[i][k])

\* What was saved is there after the file is opened again (see SessionStore
\* for the names that start with "#").
PersistsAcrossReopen ==
  loaded.ok /\ kept = Len(File) /\ (\A i \in DOMAIN saved : saved[i][1][1] # "#") =>
    loaded.records = saved
=============================================================================
