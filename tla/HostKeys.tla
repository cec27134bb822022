------------------------------ MODULE HostKeys ------------------------------
(***************************************************************************)
(* crates/crossscp-protocol-sftp/src/lib.rs: the known hosts.  A key that  *)
(* a server shows is compared with the copy of the file that the store     *)
(* read when it was opened, the user is asked about an unknown and about a *)
(* changed key, and a key to remember is put into the copy and the whole   *)
(* file is rewritten in place.                                             *)
(***************************************************************************)
EXTENDS Naturals, Sequences, Selection

CONSTANTS
  Stores,   \* instances of FileHostKeyStore on one file
  Order,    \* the endpoints (host and port), in the order of the map; no host
            \* of one is the end of the host of another
  Keys,     \* [algorithm, fingerprint]: a fingerprint is a sequence
  MaxOps    \* bound: verifications and calls of forget

Endpoints == {Order[i] : i \in DOMAIN Order}

VARIABLES
  lines,     \* the file: [of, key, whole]
  pc,        \* what each store is doing
  memory,    \* its copy: keys by endpoint
  asked,     \* the verification under way: [of, key, expected]
  decision,  \* of the last verification
  ops,
  said,      \* every <<endpoint, key>> a user asked to remember
  lastWord,  \* the last of these by endpoint, without those forgotten
  mishaps    \* "overlap": two stores open at once; "failed": a flush failed

vars == <<lines, pc, memory, asked, decision, ops, said, lastWord, mishaps>>

NoKey == [algorithm |-> "none", fingerprint |-> <<>>]
NoRecords == <<>>
Known(records, e) == IF e \in DOMAIN records THEN records[e] ELSE NoKey
Put(records, e, key) == [x \in DOMAIN records \cup {e} |-> IF x = e THEN key ELSE records[x]]
Drop(records, e) == [x \in DOMAIN records \ {e} |-> records[x]]

Line(e, key) == [of |-> e, key |-> key, whole |-> TRUE]

Render(records) ==
  LET es == Select(Order, DOMAIN records)
  IN [i \in DOMAIN es |-> Line(es[i], records[es[i]])]

ParseFails(text) == \E i \in DOMAIN text : ~text[i].whole
Parse(text) ==
  [e \in {text[i].of : i \in DOMAIN text} |->
     text[CHOOSE i \in DOMAIN text :
            text[i].of = e /\ \A j \in i + 1..Len(text) : text[j].of # e].key]

Nothing == [of |-> Order[1], key |-> NoKey, expected |-> NoKey]

Init ==
  /\ lines = <<>>
  /\ pc = [s \in Stores |-> "closed"]
  /\ memory = [s \in Stores |-> NoRecords]
  /\ asked = [s \in Stores |-> Nothing]
  /\ decision = [s \in Stores |-> "none"]
  /\ ops = 0 /\ said = {} /\ lastWord = NoRecords /\ mishaps = {}

-----------------------------------------------------------------------------

Goes(s, step) == pc' = [pc EXCEPT ![s] = step]
Decides(s, d) == decision' = [decision EXCEPT ![s] = d]

Open(s) ==
  /\ pc[s] = "closed" /\ ~ParseFails(lines)
  /\ memory' = [memory EXCEPT ![s] = Parse(lines)]
  /\ Goes(s, "open")
  /\ mishaps' = IF \E o \in Stores : pc[o] # "closed" THEN mishaps \cup {"overlap"} ELSE mishaps
  /\ UNCHANGED <<lines, asked, decision, ops, said, lastWord>>

\* The end of the process, or its death.
Close(s) ==
  /\ pc[s] # "closed" /\ Goes(s, "closed")
  /\ memory' = [memory EXCEPT ![s] = NoRecords]
  /\ asked' = [asked EXCEPT ![s] = Nothing] /\ Decides(s, "none")
  /\ mishaps' = IF pc[s] \in {"flush", "write"} THEN mishaps \cup {"failed"} ELSE mishaps
  /\ UNCHANGED <<lines, ops, said, lastWord>>

\* Faulty variant of Trusted: the algorithm is not compared.
SameFingerprint(s, e, key) == Known(memory[s], e).fingerprint = key.fingerprint

Trusted(s, e, key) == e \in DOMAIN memory[s] /\ memory[s][e] = key

\* Faulty variant of Check: the prompt of a new host for a changed key.
CheckAsNew(s, e, key) ==
  /\ pc[s] = "open" /\ ops < MaxOps /\ ops' = ops + 1
  /\ asked' = [asked EXCEPT ![s] = [of |-> e, key |-> key, expected |-> NoKey]]
  /\ IF Trusted(s, e, key)
       THEN Goes(s, "open") /\ Decides(s, "silent")
       ELSE Goes(s, "prompt") /\ Decides(s, "none")
  /\ UNCHANGED <<lines, memory, said, lastWord, mishaps>>

\* verify_host_key_with_store, up to the prompt: no prompt for a trusted key,
\* and for a changed one the prompt shows the expected key too.
Check(s, e, key) ==
  /\ pc[s] = "open" /\ ops < MaxOps /\ ops' = ops + 1
  /\ asked' = [asked EXCEPT ![s] = [of |-> e, key |-> key, expected |-> Known(memory[s], e)]]
  /\ IF Trusted(s, e, key)
       THEN Goes(s, "open") /\ Decides(s, "silent")
       ELSE Goes(s, "prompt") /\ Decides(s, "none")
  /\ UNCHANGED <<lines, memory, said, lastWord, mishaps>>

\* Accept, AcceptAll; Reject, RejectAll; Cancel, or the prompt fails.
Answer(s, d) ==
  /\ pc[s] = "prompt" /\ Goes(s, "open") /\ Decides(s, d)
  /\ UNCHANGED <<lines, memory, asked, ops, said, lastWord, mishaps>>

\* RememberAccepted: the copy first, then the file.
Remember(s) ==
  /\ pc[s] = "prompt" /\ Goes(s, "flush")
  /\ memory' = [memory EXCEPT ![s] = Put(@, asked[s].of, asked[s].key)]
  /\ said' = said \cup {<<asked[s].of, asked[s].key>>}
  /\ lastWord' = Put(lastWord, asked[s].of, asked[s].key)
  /\ UNCHANGED <<lines, asked, decision, ops, mishaps>>

Forget(s, e) ==
  /\ pc[s] = "open" /\ ops < MaxOps /\ ops' = ops + 1
  /\ memory' = [memory EXCEPT ![s] = Drop(@, e)]
  /\ lastWord' = Drop(lastWord, e)
  /\ Goes(s, IF e \in DOMAIN memory[s] THEN "flush" ELSE "open")
  /\ asked' = [asked EXCEPT ![s] = Nothing] /\ Decides(s, "none")
  /\ UNCHANGED <<lines, said, mishaps>>

\* The call returns the error; the change stays in memory.
FlushFails(s) ==
  /\ pc[s] = "flush" /\ Goes(s, "open") /\ Decides(s, "error")
  /\ mishaps' = mishaps \cup {"failed"}
  /\ UNCHANGED <<lines, memory, asked, ops, said, lastWord>>

Truncate(s) ==
  /\ pc[s] = "flush" /\ Goes(s, "write")
  /\ lines' = <<>>
  /\ UNCHANGED <<memory, asked, decision, ops, said, lastWord, mishaps>>

\* What another store wrote after the truncation, beyond the end of the text
\* that is written now; the first line whole or without its beginning (one that
\* lost only a part of its host is about a host nobody asks for: as if missing).
Tails ==
  {<<>>} \cup
  UNION {{SubSeq(lines, k, Len(lines)),
          <<[lines[k] EXCEPT !.whole = FALSE]>> \o SubSeq(lines, k + 1, Len(lines))} : k \in DOMAIN lines}

Write(s) ==
  /\ pc[s] = "write" /\ Goes(s, "open")
  /\ \E tail \in Tails : lines' = Render(memory[s]) \o tail
  /\ Decides(s, IF asked[s] = Nothing THEN "none" ELSE "remember")
  /\ UNCHANGED <<memory, asked, ops, said, lastWord, mishaps>>

\* What a write that breaks off leaves of a line: nothing, a line with fields
\* missing, or a shorter fingerprint.
Rests(line) ==
  {<<>>, <<[line EXCEPT !.whole = FALSE]>>} \cup
  {<<[line EXCEPT !.key.fingerprint = SubSeq(@, 1, n)]>> : n \in 0..Len(line.key.fingerprint)}

WriteBreaks(s) ==
  /\ pc[s] = "write" /\ Goes(s, "open") /\ Decides(s, "error")
  /\ LET new == Render(memory[s]) IN
     \E k \in 1..Len(new) : \E rest \in Rests(new[k]) : lines' = SubSeq(new, 1, k - 1) \o rest
  /\ mishaps' = mishaps \cup {"failed"}
  /\ UNCHANGED <<memory, asked, ops, said, lastWord>>

Next ==
  \E s \in Stores :
    \/ Open(s) \/ Close(s) \/ Remember(s) \/ FlushFails(s) \/ Truncate(s) \/ Write(s) \/ WriteBreaks(s)
    \/ \E d \in {"once", "reject", "cancel"} : Answer(s, d)
    \/ \E e \in Endpoints : Forget(s, e) \/ \E key \in Keys : Check(s, e, key)

Spec == Init /\ [][Next]_vars

-----------------------------------------------------------------------------

\* The variables have their types, and no prompt is about a key that the store
\* already has.
TypeOK ==
  /\ pc \in [Stores -> {"closed", "open", "prompt", "flush", "write"}]
  /\ \A s \in Stores : DOMAIN memory[s] \subseteq Endpoints /\ asked[s].of \in Endpoints
  /\ \A s \in Stores : decision[s] \in {"none", "silent", "once", "remember", "reject", "cancel", "error"}
  /\ \A s \in Stores : pc[s] = "prompt" => asked[s].key # Known(memory[s], asked[s].of)
  /\ ops \in 0..MaxOps /\ mishaps \subseteq {"overlap", "failed"}

Silently(s, e, key) ==
  decision[s] = "silent" /\ asked[s].of = e /\ asked[s].key = key

\* A key is accepted without a prompt only if a user has asked to remember just
\* this key of this endpoint, whatever a broken write left of the file.
SilentOnlyIfRemembered ==
  \A s \in Stores, e \in Endpoints, key \in Keys : Silently(s, e, key) => <<e, key>> \in said

\* As long as no flush failed and no two stores were open at once, the last
\* word counts: not a key that was replaced, nor one that was forgotten.
SilentFollowsLastWord ==
  \A s \in Stores, e \in Endpoints, key \in Keys :
    Silently(s, e, key) /\ mishaps = {} => Known(lastWord, e) = key

\* A store changes its mind about an endpoint only on a prompt about it that
\* showed the key it had, and only to the key the prompt was about.
ReplacedOnlyAfterShown ==
  [][\A s \in Stores, e \in Endpoints :
       pc[s] \notin {"closed"} /\ pc'[s] # "closed" /\ Known(memory'[s], e) \notin {NoKey, Known(memory[s], e)} =>
         /\ pc[s] = "prompt" /\ asked[s].of = e
         /\ asked[s].expected = Known(memory[s], e)
         /\ Known(memory'[s], e) = asked[s].key]_vars

\* Who is told that a key was remembered finds it after opening the file
\* again, if no other store was open.
RememberedIsOnDisk ==
  \A s \in Stores :
    decision[s] = "remember" /\ pc[s] = "open" /\ "overlap" \notin mishaps =>
      ~ParseFails(lines) /\ Known(Parse(lines), asked[s].of) = asked[s].key
=============================================================================
