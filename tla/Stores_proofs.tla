---------------------------- MODULE Stores_proofs ----------------------------
(***************************************************************************)
(* Proofs about the stores: the known hosts, the sessions and the sites of *)
(* module Stores.  For each store an inductive invariant, and the theorems *)
(* that follow from it; what the lines of one key leave is what Select     *)
(* returns (DataLemmas).                                                   *)
(***************************************************************************)
EXTENDS Stores, DataLemmas

-----------------------------------------------------------------------------
(* The known hosts                                                         *)

HostEndpoints == {HostOrder[i] : i \in DOMAIN HostOrder}
RawKeys == [algorithm : STRING \cup {"none"}, fingerprint : Seq(Nat)]
HostLines == [of : HostEndpoints, key : RawKeys, whole : BOOLEAN]
Books == UNION {[D -> RawKeys] : D \in SUBSET HostEndpoints}

LEMMA BookIsFunction ==
  ASSUME NEW m \in Books
  PROVE m \in [DOMAIN m -> RawKeys] /\ DOMAIN m \subseteq HostEndpoints
  BY DEF Books

\* What a file that was written as a whole has: a line for every record, each
\* endpoint once.
LEMMA HostRenderLines ==
  ASSUME NEW m \in Books
  PROVE LET text == KnownHosts!Render(m) IN
        /\ text \in Seq(HostLines)
        /\ \A i \in DOMAIN text : text[i].of \in DOMAIN m /\ text[i].key = m[text[i].of] /\ text[i].whole
        /\ \A e \in DOMAIN m : \E i \in DOMAIN text : text[i].of = e
        /\ \A i, j \in DOMAIN text : text[i].of = text[j].of => i = j
<1> DEFINE D == DOMAIN m
<1> DEFINE es == Select(HostOrder, D)
<1>1. m \in [D -> RawKeys] /\ D \subseteq HostEndpoints
  BY BookIsFunction
<1>2. HostOrder \in Seq(STRING) /\ NoRepetition(HostOrder)
  BY StoresAssumption DEF HostsAssumption
<1>2a. HostOrder \in Seq(HostEndpoints)
  BY <1>2 DEF HostEndpoints
<1> HIDE DEF D
<1>3. es \in Seq(HostEndpoints \cap D)
  BY <1>2a, SelectPicks
<1>4. PICK at : PickedAt(at, es, HostOrder, D)
  BY <1>2a, SelectPicks
<1>5. \A i, j \in 1..Len(es) : es[i] = es[j] => i = j
  <2> HIDE DEF es
  <2>0. Len(es) \in Nat
    BY <1>3
  <2>1. SUFFICES ASSUME NEW i \in 1..Len(es), NEW j \in 1..Len(es), es[i] = es[j], i < j PROVE FALSE
    BY <2>0
  <2>2. HostOrder[at[i]] = HostOrder[at[j]] /\ at[i] \in DOMAIN HostOrder /\ at[j] \in DOMAIN HostOrder
    BY <2>1, <1>4, <1>2a DEF PickedAt
  <2>3. at[i] = at[j]
    BY <2>2, <1>2 DEF NoRepetition
  <2> QED BY <2>1, <2>3, <1>4 DEF PickedAt
<1>6. \A e \in D : \E i \in 1..Len(es) : es[i] = e
  <2> SUFFICES ASSUME NEW e \in D PROVE \E i \in 1..Len(es) : es[i] = e
    OBVIOUS
  <2>1. PICK k \in 1..Len(HostOrder) : HostOrder[k] = e
    BY <1>1, <1>2 DEF HostEndpoints
  <2> QED BY <2>1, <1>4 DEF PickedAt
<1> DEFINE text == [i \in DOMAIN es |-> [of |-> es[i], key |-> m[es[i]], whole |-> TRUE]]
<1>7. KnownHosts!Render(m) = text
  BY DEF KnownHosts!Render, KnownHosts!Select, Select, KnownHosts!Line, D
<1>8. DOMAIN es = 1..Len(es) /\ Len(es) \in Nat
  BY <1>3
<1>9. text \in Seq(HostLines) /\ DOMAIN text = 1..Len(es)
  <2> HIDE DEF es
  <2>1. \A i \in 1..Len(es) : text[i] \in HostLines
    BY <1>3, <1>1, <1>8 DEF HostLines
  <2>2. text \in [1..Len(es) -> HostLines]
    BY <2>1, <1>8
  <2> QED BY <2>2, <1>8
<1>10. \A i \in DOMAIN text : text[i].of = es[i] /\ text[i].key = m[es[i]] /\ text[i].whole /\ es[i] \in D
  <2> HIDE DEF es
  <2> QED BY <1>3, <1>8
<1> HIDE DEF es, text
<1> QED BY <1>5, <1>6, <1>7, <1>9, <1>10 DEF D

\* What Parse takes for an endpoint stands on a line about it, the last one.
LEMMA HostLastLine ==
  ASSUME NEW text \in Seq(HostLines), NEW e, e \in {text[i].of : i \in DOMAIN text}
  PROVE LET last == CHOOSE i \in DOMAIN text :
                      text[i].of = e /\ \A j \in i + 1..Len(text) : text[j].of # e
        IN last \in DOMAIN text /\ text[last].of = e
<1> DEFINE T == {i \in DOMAIN text : text[i].of = e}
<1>1. Len(text) \in Nat /\ DOMAIN text = 1..Len(text)
  OBVIOUS
<1>2. T \in SUBSET (1..Len(text)) /\ T # {}
  BY <1>1
<1>3. PICK m \in T : \A k \in T : k <= m
  <2> HIDE DEF T
  <2> QED BY <1>1, <1>2, LastPosition
<1>4. m \in DOMAIN text /\ text[m].of = e /\ \A j \in m + 1..Len(text) : text[j].of # e
  BY <1>1, <1>3
<1> QED BY <1>4

LEMMA HostParseReads ==
  ASSUME NEW text \in Seq(HostLines)
  PROVE /\ KnownHosts!Parse(text) \in Books
        /\ \A e \in DOMAIN KnownHosts!Parse(text) :
             \E i \in DOMAIN text : text[i].of = e /\ KnownHosts!Parse(text)[e] = text[i].key
<1> DEFINE D == {text[i].of : i \in DOMAIN text}
<1> DEFINE last(e) == CHOOSE i \in DOMAIN text :
                        text[i].of = e /\ \A j \in i + 1..Len(text) : text[j].of # e
<1>1. \A e \in D : last(e) \in DOMAIN text /\ text[last(e)].of = e
  BY HostLastLine
<1> HIDE DEF last
<1>2. KnownHosts!Parse(text) = [e \in D |-> text[last(e)].key]
  BY DEF KnownHosts!Parse, last
<1>3. \A i \in DOMAIN text : text[i] \in HostLines
  OBVIOUS
<1>4. D \subseteq HostEndpoints /\ \A e \in D : text[last(e)].key \in RawKeys
  BY <1>1, <1>3 DEF HostLines
<1> HIDE DEF D
<1>5. [e \in D |-> text[last(e)].key] \in [D -> RawKeys]
  BY <1>4
<1>6. KnownHosts!Parse(text) \in Books
  BY <1>2, <1>4, <1>5 DEF Books
<1> QED BY <1>1, <1>2, <1>6

\* Reading what was written as a whole gives back the records.
LEMMA HostRoundTrip ==
  ASSUME NEW m \in Books
  PROVE /\ ~KnownHosts!ParseFails(KnownHosts!Render(m))
        /\ KnownHosts!Parse(KnownHosts!Render(m)) = m
<1> DEFINE text == KnownHosts!Render(m)
<1>1. /\ text \in Seq(HostLines)
      /\ \A i \in DOMAIN text : text[i].of \in DOMAIN m /\ text[i].key = m[text[i].of] /\ text[i].whole
      /\ \A e \in DOMAIN m : \E i \in DOMAIN text : text[i].of = e
  BY HostRenderLines
<1> HIDE DEF text
<1>2. ~KnownHosts!ParseFails(text)
  BY <1>1 DEF KnownHosts!ParseFails
<1> DEFINE p == KnownHosts!Parse(text)
<1>3. p \in Books /\ \A e \in DOMAIN p : \E i \in DOMAIN text : text[i].of = e /\ p[e] = text[i].key
  BY <1>1, HostParseReads
<1>4. DOMAIN p = {text[i].of : i \in DOMAIN text}
  BY DEF KnownHosts!Parse
<1>5. DOMAIN p = DOMAIN m
  BY <1>4, <1>1
<1> HIDE DEF p
<1>6. \A e \in DOMAIN m : p[e] = m[e]
  BY <1>1, <1>3, <1>5
<1>7. p = m
  BY <1>3, <1>5, <1>6, BookIsFunction
<1> QED BY <1>2, <1>7 DEF text, p

\* The empty file.
LEMMA HostEmptyFile == ~KnownHosts!ParseFails(<<>>) /\ KnownHosts!Parse(<<>>) = <<>>
<1>1. DOMAIN <<>> = {}
  OBVIOUS
<1>2. {<<>>[i].of : i \in DOMAIN <<>>} = {}
  OBVIOUS
<1>3. KnownHosts!Parse(<<>>) \in [{} -> {}]
  BY <1>2 DEF KnownHosts!Parse
<1>4. <<>> \in [{} -> {}]
  OBVIOUS
<1>5. KnownHosts!Parse(<<>>) = <<>>
  BY <1>3, <1>4
<1> QED BY <1>5 DEF KnownHosts!ParseFails

\* The key is one that a user asked to remember for the endpoint, or one whose
\* fingerprint a write that broke off has cut.
Heard(words, e, key) ==
  \E h \in ShownKeys, n \in Nat :
    /\ <<e, h>> \in words /\ n <= Len(h.fingerprint)
    /\ key = [algorithm |-> h.algorithm, fingerprint |-> SubSeq(h.fingerprint, 1, n)]

LEMMA ShownKeyFields ==
  ASSUME NEW h \in ShownKeys
  PROVE /\ h.algorithm \in STRING /\ h.algorithm # "none" /\ h.fingerprint \in Seq(Nat)
        /\ h = [algorithm |-> h.algorithm, fingerprint |-> h.fingerprint]
        /\ h \in RawKeys /\ h # KnownHosts!NoKey
        /\ \A k \in ShownKeys : Len(k.fingerprint) = Len(h.fingerprint)
  BY StoresAssumption DEF HostsAssumption, RawKeys, KnownHosts!NoKey

LEMMA PrefixOfAll ==
  ASSUME NEW s \in Seq(Nat)
  PROVE SubSeq(s, 1, Len(s)) = s
  OBVIOUS

LEMMA PrefixOfPrefix ==
  ASSUME NEW s \in Seq(Nat), NEW n \in 0..Len(s), NEW k \in 0..n
  PROVE /\ SubSeq(s, 1, n) \in Seq(Nat) /\ Len(SubSeq(s, 1, n)) = n
        /\ SubSeq(SubSeq(s, 1, n), 1, k) = SubSeq(s, 1, k)
<1>1. SubSeq(s, 1, n) \in Seq(Nat) /\ Len(SubSeq(s, 1, n)) = n /\ \A i \in 1..n : SubSeq(s, 1, n)[i] = s[i]
  BY SubSeqProperties
<1>2. SubSeq(s, 1, k) \in Seq(Nat) /\ Len(SubSeq(s, 1, k)) = k /\ \A i \in 1..k : SubSeq(s, 1, k)[i] = s[i]
  BY SubSeqProperties
<1> DEFINE t == SubSeq(s, 1, n)
<1> HIDE DEF t
<1>3. t \in Seq(Nat) /\ Len(t) = n
  BY <1>1 DEF t
<1>4. SubSeq(t, 1, k) \in Seq(Nat) /\ Len(SubSeq(t, 1, k)) = k /\ \A i \in 1..k : SubSeq(t, 1, k)[i] = t[i]
  BY <1>3, SubSeqProperties
<1>5. \A i \in 1..k : SubSeq(t, 1, k)[i] = SubSeq(s, 1, k)[i]
  BY <1>1, <1>2, <1>4 DEF t
<1>6. SubSeq(t, 1, k) = SubSeq(s, 1, k)
  BY <1>2, <1>4, <1>5, SeqEqual
<1> QED BY <1>1, <1>6 DEF t

LEMMA HeardShown ==
  ASSUME NEW words, NEW e, NEW h \in ShownKeys, <<e, h>> \in words
  PROVE Heard(words, e, h)
<1>1. SubSeq(h.fingerprint, 1, Len(h.fingerprint)) = h.fingerprint /\ Len(h.fingerprint) \in 0..Len(h.fingerprint)
  BY ShownKeyFields, PrefixOfAll
<1>2. h = [algorithm |-> h.algorithm, fingerprint |-> SubSeq(h.fingerprint, 1, Len(h.fingerprint))]
  BY <1>1, ShownKeyFields
<1>3. Len(h.fingerprint) \in Nat
  BY ShownKeyFields
<1> DEFINE n == Len(h.fingerprint)
<1> HIDE DEF n
<1>4. h \in ShownKeys /\ n \in Nat /\ n <= Len(h.fingerprint)
      /\ h = [algorithm |-> h.algorithm, fingerprint |-> SubSeq(h.fingerprint, 1, n)]
  BY <1>2, <1>3 DEF n
<1> QED BY <1>4 DEF Heard

LEMMA HeardShorter ==
  ASSUME NEW words, NEW e, NEW key, Heard(words, e, key), NEW k \in 0..Len(key.fingerprint)
  PROVE Heard(words, e, [key EXCEPT !.fingerprint = SubSeq(@, 1, k)])
<1>1. PICK h \in ShownKeys, n \in Nat :
        <<e, h>> \in words /\ n <= Len(h.fingerprint) /\ key = [algorithm |-> h.algorithm, fingerprint |-> SubSeq(h.fingerprint, 1, n)]
  BY DEF Heard
<1>2. h.fingerprint \in Seq(Nat)
  BY ShownKeyFields
<1>3. Len(key.fingerprint) = n /\ k \in 0..n /\ k \in 0..Len(h.fingerprint)
  <2>1. Len(SubSeq(h.fingerprint, 1, n)) = n
    BY <1>2, SubSeqProperties
  <2> QED BY <1>1, <1>2, <2>1
<1>4. [key EXCEPT !.fingerprint = SubSeq(@, 1, k)]
        = [algorithm |-> h.algorithm, fingerprint |-> SubSeq(SubSeq(h.fingerprint, 1, n), 1, k)]
  <2> DEFINE f == SubSeq(h.fingerprint, 1, n)
  <2>1. key = [algorithm |-> h.algorithm, fingerprint |-> f]
    BY <1>1
  <2> HIDE DEF f
  <2>2. [key EXCEPT !.fingerprint = SubSeq(@, 1, k)]
          = [algorithm |-> h.algorithm, fingerprint |-> SubSeq(f, 1, k)]
    <3> DEFINE g == SubSeq(key.fingerprint, 1, k)
    <3>1. key.fingerprint = f
      BY <2>1
    <3> HIDE DEF g
    <3>2. [key EXCEPT !.fingerprint = g] = [algorithm |-> h.algorithm, fingerprint |-> g]
      BY <2>1
    <3> QED BY <3>1, <3>2 DEF g
  <2> QED BY <2>2 DEF f
<1>5. SubSeq(SubSeq(h.fingerprint, 1, n), 1, k) = SubSeq(h.fingerprint, 1, k)
  BY <1>2, <1>3, PrefixOfPrefix
<1>6. [key EXCEPT !.fingerprint = SubSeq(@, 1, k)]
        = [algorithm |-> h.algorithm, fingerprint |-> SubSeq(h.fingerprint, 1, k)]
  BY <1>4, <1>5
<1>7. k \in Nat /\ k <= Len(h.fingerprint)
  BY <1>2, <1>3
<1> DEFINE short == [key EXCEPT !.fingerprint = SubSeq(@, 1, k)]
<1> HIDE DEF short
<1>8. short = [algorithm |-> h.algorithm, fingerprint |-> SubSeq(h.fingerprint, 1, k)]
  BY <1>6 DEF short
<1>9. Heard(words, e, short)
  BY <1>1, <1>7, <1>8 DEF Heard
<1> QED BY <1>9 DEF short

\* A cut fingerprint is shorter than any that is shown.
LEMMA HeardExact ==
  ASSUME NEW words, NEW e, NEW key \in ShownKeys, Heard(words, e, key)
  PROVE <<e, key>> \in words
<1>1. PICK h \in ShownKeys, n \in Nat :
        <<e, h>> \in words /\ n <= Len(h.fingerprint) /\ key = [algorithm |-> h.algorithm, fingerprint |-> SubSeq(h.fingerprint, 1, n)]
  BY DEF Heard
<1>2. Len(key.fingerprint) = Len(h.fingerprint) /\ h.fingerprint \in Seq(Nat)
      /\ h = [algorithm |-> h.algorithm, fingerprint |-> h.fingerprint]
  BY ShownKeyFields
<1>3. Len(SubSeq(h.fingerprint, 1, n)) = n
  BY <1>2, SubSeqProperties
<1>4. n = Len(h.fingerprint)
  BY <1>1, <1>2, <1>3
<1>5. SubSeq(h.fingerprint, 1, n) = h.fingerprint
  BY <1>2, <1>4, PrefixOfAll
<1> QED BY <1>1, <1>2, <1>5

LEMMA HeardMore ==
  ASSUME NEW words, NEW more, words \subseteq more, NEW e, NEW key, Heard(words, e, key)
  PROVE Heard(more, e, key)
  BY DEF Heard
LEMMA HeardIsRaw ==
  ASSUME NEW words, NEW e, NEW key, Heard(words, e, key)
  PROVE key \in RawKeys
<1>1. PICK h \in ShownKeys, n \in Nat :
        <<e, h>> \in words /\ n <= Len(h.fingerprint) /\ key = [algorithm |-> h.algorithm, fingerprint |-> SubSeq(h.fingerprint, 1, n)]
  BY DEF Heard
<1>2. h.fingerprint \in Seq(Nat) /\ h.algorithm \in STRING
  BY ShownKeyFields
<1>3. SubSeq(h.fingerprint, 1, n) \in Seq(Nat)
  <2>1. n \in 0..Len(h.fingerprint) /\ 0 \in 0..n
    BY <1>1, <1>2
  <2> QED BY <1>2, <2>1, PrefixOfPrefix
<1> QED BY <1>1, <1>2, <1>3 DEF RawKeys

\* What is left of the old text holds no record that was not there.
LEMMA HostTails ==
  ASSUME hosts \in Seq(HostLines), NEW tail \in KnownHosts!Tails
  PROVE /\ tail \in Seq(HostLines)
        /\ \A i \in DOMAIN tail : \E j \in DOMAIN hosts : tail[i].of = hosts[j].of /\ tail[i].key = hosts[j].key
        /\ hosts = <<>> => tail = <<>>
<1>1. CASE tail = <<>>
  BY <1>1
<1>2. ASSUME NEW k \in DOMAIN hosts,
             \/ tail = SubSeq(hosts, k, Len(hosts))
             \/ tail = <<[hosts[k] EXCEPT !.whole = FALSE]>> \o SubSeq(hosts, k + 1, Len(hosts))
      PROVE /\ tail \in Seq(HostLines)
            /\ \A i \in DOMAIN tail : \E j \in DOMAIN hosts : tail[i].of = hosts[j].of /\ tail[i].key = hosts[j].key
            /\ hosts # <<>>
  <2>0. DOMAIN hosts = 1..Len(hosts) /\ Len(hosts) \in Nat /\ k \in 1..Len(hosts) /\ hosts # <<>>
    BY <1>2
  <2>1. CASE tail = SubSeq(hosts, k, Len(hosts))
    <3>1. tail \in Seq(HostLines) /\ Len(tail) = Len(hosts) - k + 1
          /\ \A i \in 1..(Len(hosts) - k + 1) : tail[i] = hosts[k + i - 1]
      BY <2>0, <2>1, SubSeqProperties
    <3>2. \A i \in DOMAIN tail : k + i - 1 \in DOMAIN hosts /\ tail[i] = hosts[k + i - 1]
      BY <2>0, <3>1
    <3> QED BY <2>0, <3>1, <3>2
  <2>2. CASE tail = <<[hosts[k] EXCEPT !.whole = FALSE]>> \o SubSeq(hosts, k + 1, Len(hosts))
    <3> DEFINE first == [hosts[k] EXCEPT !.whole = FALSE]
    <3> DEFINE rest == SubSeq(hosts, k + 1, Len(hosts))
    <3>1. hosts[k] \in HostLines
      OBVIOUS
    <3>2. first \in HostLines /\ first.of = hosts[k].of /\ first.key = hosts[k].key
      BY <3>1 DEF HostLines
    <3>3. rest \in Seq(HostLines) /\ Len(rest) = Len(hosts) - k
          /\ \A i \in 1..(Len(hosts) - k) : rest[i] = hosts[k + i]
      BY <2>0, SubSeqProperties
    <3> HIDE DEF first, rest
    <3>4. <<first>> \o rest \in Seq(HostLines) /\ Len(<<first>> \o rest) = 1 + Len(rest)
          /\ (<<first>> \o rest)[1] = first
          /\ \A i \in 1..Len(rest) : (<<first>> \o rest)[i + 1] = rest[i]
      BY <3>2, <3>3
    <3>5. tail = <<first>> \o rest
      BY <2>2 DEF first, rest
    <3>6. ASSUME NEW i \in DOMAIN tail
          PROVE \E j \in DOMAIN hosts : tail[i].of = hosts[j].of /\ tail[i].key = hosts[j].key
      <4>1. CASE i = 1
        BY <4>1, <3>2, <3>4, <3>5
      <4>2. CASE i # 1
        <5>1. i - 1 \in 1..Len(rest) /\ k + (i - 1) \in DOMAIN hosts
          BY <4>2, <3>3, <3>4, <3>5, <2>0
        <5>2. tail[(i - 1) + 1] = rest[i - 1] /\ rest[i - 1] = hosts[k + (i - 1)]
          BY <5>1, <3>3, <3>4, <3>5
        <5>3. tail[i] = hosts[k + (i - 1)]
          BY <5>2, <3>3, <3>4, <3>5
        <5> QED BY <5>1, <5>3
      <4> QED BY <4>1, <4>2
    <3> QED BY <2>0, <3>4, <3>5, <3>6
  <2> QED BY <1>2, <2>1, <2>2
<1>3. tail = <<>> \/ \E k \in DOMAIN hosts :
             \/ tail = SubSeq(hosts, k, Len(hosts))
             \/ tail = <<[hosts[k] EXCEPT !.whole = FALSE]>> \o SubSeq(hosts, k + 1, Len(hosts))
  BY Zenon DEF KnownHosts!Tails
<1> QED BY <1>1, <1>2, <1>3

\* Nor does what a write that breaks off leaves of a line.
LEMMA HostRests ==
  ASSUME NEW line \in HostLines, NEW words, Heard(words, line.of, line.key),
         NEW rest \in KnownHosts!Rests(line)
  PROVE /\ rest \in Seq(HostLines)
        /\ \A i \in DOMAIN rest : Heard(words, rest[i].of, rest[i].key)
<1> DEFINE broken == [line EXCEPT !.whole = FALSE]
<1> DEFINE short(n) == [line EXCEPT !.key.fingerprint = SubSeq(@, 1, n)]
<1>1. CASE rest = <<>>
  BY <1>1
<1>2. CASE rest = <<broken>>
  <2>1. broken \in HostLines /\ broken.of = line.of /\ broken.key = line.key
    BY DEF HostLines
  <2> HIDE DEF broken
  <2> QED BY <1>2, <2>1
<1>3. ASSUME NEW n \in 0..Len(line.key.fingerprint), rest = <<short(n)>>
      PROVE /\ rest \in Seq(HostLines)
            /\ \A i \in DOMAIN rest : Heard(words, rest[i].of, rest[i].key)
  <2>1. short(n).key = [line.key EXCEPT !.fingerprint = SubSeq(@, 1, n)] /\ short(n).of = line.of
    BY DEF HostLines
  <2>2. Heard(words, short(n).of, short(n).key)
    BY <2>1, HeardShorter
  <2>3. short(n).key \in RawKeys
    BY <2>2, HeardIsRaw
  <2>4. short(n) \in HostLines
    BY <2>3 DEF HostLines
  <2> HIDE DEF short
  <2> QED BY <1>3, <2>2, <2>4
<1>4. rest = <<>> \/ rest = <<broken>> \/ \E n \in 0..Len(line.key.fingerprint) : rest = <<short(n)>>
  BY DEF KnownHosts!Rests
<1> QED BY <1>1, <1>2, <1>3, <1>4

-----------------------------------------------------------------------------

HostSteps == {"closed", "open", "prompt", "flush", "write"}
HostDecisions == {"none", "silent", "once", "remember", "reject", "cancel", "error"}
Verifications == [of : HostEndpoints, key : RawKeys, expected : RawKeys]

HostTypes ==
  /\ storePc \in [HostStores -> HostSteps]
  /\ keys \in [HostStores -> Books]
  /\ asked \in [HostStores -> Verifications]
  /\ decision \in [HostStores -> HostDecisions]
  /\ hosts \in Seq(HostLines) /\ lastWord \in Books
  /\ said \subseteq HostEndpoints \X ShownKeys
  /\ verified \in 0..MaxCalls /\ failures \subseteq {"overlap", "failed"}

\* The file and the copies hold what users have said, or the beginning of it.
HostsHeard ==
  /\ \A i \in DOMAIN hosts : Heard(said, hosts[i].of, hosts[i].key)
  /\ \A s \in HostStores : \A e \in DOMAIN keys[s] : Heard(said, e, keys[s][e])

\* A prompt shows the key that the store has, and what is written after it is
\* the key that the prompt was about.
PromptsRight ==
  \A s \in HostStores :
    /\ storePc[s] = "prompt" =>
         /\ asked[s].key \in ShownKeys /\ asked[s].key # KnownHosts!Known(keys[s], asked[s].of)
         /\ asked[s].expected = KnownHosts!Known(keys[s], asked[s].of)
    /\ storePc[s] \in {"flush", "write"} /\ asked[s] # KnownHosts!Nothing =>
         KnownHosts!Known(keys[s], asked[s].of) = asked[s].key

SilenceRight ==
  \A s \in HostStores :
    /\ decision[s] = "silent" =>
         storePc[s] = "open" /\ KnownHosts!Known(keys[s], asked[s].of) = asked[s].key
    /\ storePc[s] = "closed" => decision[s] = "none"

\* Without an overlap at most one store is open, and it has emptied the file
\* when it is about to write.
OneStoreOpen ==
  "overlap" \notin failures =>
    /\ \A s, t \in HostStores : storePc[s] # "closed" /\ storePc[t] # "closed" => s = t
    /\ \A s \in HostStores : storePc[s] = "write" => hosts = <<>>

\* Without any mishap the copy of the open store, and the file but while it is
\* rewritten, is the last word.
CopyIsLastWord ==
  failures = {} =>
    /\ \A s \in HostStores : storePc[s] # "closed" => keys[s] = lastWord
    /\ (\A s \in HostStores : storePc[s] \notin {"flush", "write"}) =>
         ~KnownHosts!ParseFails(hosts) /\ KnownHosts!Parse(hosts) = lastWord

HostInv ==
  /\ HostTypes /\ HostsHeard /\ PromptsRight /\ SilenceRight /\ OneStoreOpen /\ CopyIsLastWord
  /\ KnownHosts!SilentOnlyIfRemembered
  /\ KnownHosts!RememberedIsOnDisk

LEMMA NoKeyIsRaw == KnownHosts!NoKey \in RawKeys
<1>1. <<>> \in Seq(Nat)
  OBVIOUS
<1> DEFINE empty == <<>>
<1> HIDE DEF empty
<1>3. [algorithm |-> "none", fingerprint |-> empty] \in RawKeys
  BY <1>1 DEF RawKeys, empty
<1> QED BY <1>3 DEF KnownHosts!NoKey, empty

LEMMA HostKnown ==
  ASSUME NEW m \in Books, NEW e
  PROVE /\ KnownHosts!Known(m, e) \in RawKeys
        /\ e \in DOMAIN m => KnownHosts!Known(m, e) = m[e] /\ m[e] \in RawKeys /\ e \in HostEndpoints
        /\ e \notin DOMAIN m => KnownHosts!Known(m, e) = KnownHosts!NoKey
<1>1. m \in [DOMAIN m -> RawKeys] /\ DOMAIN m \subseteq HostEndpoints
  BY BookIsFunction
<1>2. KnownHosts!NoKey \in RawKeys
  BY NoKeyIsRaw
<1> QED BY <1>1, <1>2 DEF KnownHosts!Known

LEMMA HostPut ==
  ASSUME NEW m \in Books, NEW e \in HostEndpoints, NEW key \in RawKeys
  PROVE /\ KnownHosts!Put(m, e, key) \in Books
        /\ DOMAIN KnownHosts!Put(m, e, key) = DOMAIN m \cup {e}
        /\ \A x \in DOMAIN m \cup {e} : KnownHosts!Put(m, e, key)[x] = IF x = e THEN key ELSE m[x]
        /\ KnownHosts!Known(KnownHosts!Put(m, e, key), e) = key
<1> DEFINE D == DOMAIN m \cup {e}
<1> DEFINE p == [x \in D |-> IF x = e THEN key ELSE m[x]]
<1>1. m \in [DOMAIN m -> RawKeys] /\ DOMAIN m \subseteq HostEndpoints
  BY BookIsFunction
<1>2. KnownHosts!Put(m, e, key) = p
  BY DEF KnownHosts!Put
<1>3. D \in SUBSET HostEndpoints /\ \A x \in D : (IF x = e THEN key ELSE m[x]) \in RawKeys
  BY <1>1
<1>4. p \in [D -> RawKeys]
  <2> HIDE DEF D
  <2> QED BY <1>3
<1>5. p \in Books
  <2> HIDE DEF p, D
  <2> QED BY <1>3, <1>4 DEF Books
<1>6. e \in DOMAIN p /\ p[e] = key
  OBVIOUS
<1> QED BY <1>2, <1>5, <1>6 DEF KnownHosts!Known

LEMMA HostDrop ==
  ASSUME NEW m \in Books, NEW e
  PROVE /\ KnownHosts!Drop(m, e) \in Books
        /\ DOMAIN KnownHosts!Drop(m, e) = DOMAIN m \ {e}
        /\ \A x \in DOMAIN m \ {e} : KnownHosts!Drop(m, e)[x] = m[x]
        /\ e \notin DOMAIN m => KnownHosts!Drop(m, e) = m
<1> DEFINE D == DOMAIN m \ {e}
<1> DEFINE p == [x \in D |-> m[x]]
<1>1. m \in [DOMAIN m -> RawKeys] /\ DOMAIN m \subseteq HostEndpoints
  BY BookIsFunction
<1>2. KnownHosts!Drop(m, e) = p
  BY DEF KnownHosts!Drop
<1>3. D \in SUBSET HostEndpoints /\ \A x \in D : m[x] \in RawKeys
  BY <1>1
<1>4. p \in [D -> RawKeys]
  <2> HIDE DEF D
  <2> QED BY <1>3
<1>5. p \in Books
  <2> HIDE DEF p, D
  <2> QED BY <1>3, <1>4 DEF Books
<1>6. e \notin DOMAIN m => p = m
  BY <1>1
<1> QED BY <1>2, <1>5, <1>6

LEMMA EmptyBook == KnownHosts!NoRecords \in Books /\ DOMAIN KnownHosts!NoRecords = {}
<1>1. <<>> \in [{} -> RawKeys]
  OBVIOUS
<1> QED BY <1>1 DEF KnownHosts!NoRecords, Books

LEMMA NothingAsked == KnownHosts!Nothing \in Verifications /\ KnownHosts!Nothing.key \notin ShownKeys
<1>1. HostOrder[1] \in HostEndpoints
  <2>1. 1 \in DOMAIN HostOrder
    BY StoresAssumption DEF HostsAssumption
  <2> QED BY <2>1 DEF HostEndpoints
<1>2. KnownHosts!NoKey \in RawKeys
  BY NoKeyIsRaw
<1>3. KnownHosts!NoKey \notin ShownKeys
  BY ShownKeyFields
<1> QED BY <1>1, <1>2, <1>3 DEF KnownHosts!Nothing, Verifications

LEMMA HostInitRight == KnownHosts!Init => HostInv
<1> SUFFICES ASSUME KnownHosts!Init PROVE HostInv
  OBVIOUS
<1> USE DEF KnownHosts!Init
<1>1. HostTypes
  BY EmptyBook, NothingAsked, StoresAssumption DEF HostTypes, HostSteps, HostDecisions, KnownHosts!NoRecords
<1>2. HostsHeard
  BY EmptyBook DEF HostsHeard
<1>3. PromptsRight /\ SilenceRight /\ OneStoreOpen
  BY DEF PromptsRight, SilenceRight, OneStoreOpen
<1>4. CopyIsLastWord
  BY HostEmptyFile DEF CopyIsLastWord, KnownHosts!NoRecords
<1>5. KnownHosts!SilentOnlyIfRemembered /\ KnownHosts!RememberedIsOnDisk
  BY DEF KnownHosts!SilentOnlyIfRemembered, KnownHosts!RememberedIsOnDisk, KnownHosts!Silently
<1> QED BY <1>1, <1>2, <1>3, <1>4, <1>5 DEF HostInv

LEMMA HostOpenKeeps ==
  ASSUME HostInv, NEW s \in HostStores, KnownHosts!Open(s)
  PROVE HostInv'
<1> USE DEF HostInv
<1>1. /\ storePc[s] = "closed" /\ ~KnownHosts!ParseFails(hosts)
      /\ keys' = [keys EXCEPT ![s] = KnownHosts!Parse(hosts)]
      /\ storePc' = [storePc EXCEPT ![s] = "open"]
      /\ failures' = IF \E o \in HostStores : storePc[o] # "closed" THEN failures \cup {"overlap"} ELSE failures
      /\ UNCHANGED <<hosts, asked, decision, verified, said, lastWord>>
  BY DEF KnownHosts!Open, KnownHosts!Goes
<1>2. hosts \in Seq(HostLines)
  BY DEF HostTypes
<1>3. KnownHosts!Parse(hosts) \in Books
      /\ \A e \in DOMAIN KnownHosts!Parse(hosts) :
           \E i \in DOMAIN hosts : hosts[i].of = e /\ KnownHosts!Parse(hosts)[e] = hosts[i].key
  BY <1>2, HostParseReads
<1>4. HostTypes'
  BY <1>1, <1>3 DEF HostTypes, HostSteps
<1>5. /\ \A t \in HostStores \ {s} : keys'[t] = keys[t] /\ storePc'[t] = storePc[t]
      /\ keys'[s] = KnownHosts!Parse(hosts) /\ storePc'[s] = "open"
  BY <1>1 DEF HostTypes
<1>6. HostsHeard'
  <2>1. \A e \in DOMAIN keys'[s] : Heard(said, e, keys'[s][e])
    BY <1>3, <1>5 DEF HostsHeard
  <2> QED BY <1>1, <1>5, <2>1 DEF HostsHeard
<1>7. PromptsRight'
  BY <1>1, <1>5 DEF PromptsRight
<1>8. SilenceRight'
  BY <1>1, <1>5 DEF SilenceRight
<1>9. OneStoreOpen'
  BY <1>1, <1>5 DEF OneStoreOpen
<1>10. CopyIsLastWord'
  BY <1>1, <1>5 DEF CopyIsLastWord
<1>11. KnownHosts!SilentOnlyIfRemembered'
  BY <1>1 DEF KnownHosts!SilentOnlyIfRemembered, KnownHosts!Silently
<1>12. KnownHosts!RememberedIsOnDisk'
  BY <1>1, <1>5 DEF KnownHosts!RememberedIsOnDisk, OneStoreOpen, SilenceRight
<1> QED BY <1>4, <1>6, <1>7, <1>8, <1>9, <1>10, <1>11, <1>12

LEMMA HostCloseKeeps ==
  ASSUME HostInv, NEW s \in HostStores, KnownHosts!Close(s)
  PROVE HostInv'
<1> USE DEF HostInv
<1>1. /\ storePc[s] # "closed" /\ storePc' = [storePc EXCEPT ![s] = "closed"]
      /\ keys' = [keys EXCEPT ![s] = KnownHosts!NoRecords]
      /\ asked' = [asked EXCEPT ![s] = KnownHosts!Nothing]
      /\ decision' = [decision EXCEPT ![s] = "none"]
      /\ failures' = IF storePc[s] \in {"flush", "write"} THEN failures \cup {"failed"} ELSE failures
      /\ UNCHANGED <<hosts, verified, said, lastWord>>
  BY DEF KnownHosts!Close, KnownHosts!Goes, KnownHosts!Decides
<1>2. HostTypes'
  BY <1>1, EmptyBook, NothingAsked DEF HostTypes, HostSteps, HostDecisions
<1>3. /\ \A t \in HostStores \ {s} : /\ keys'[t] = keys[t] /\ storePc'[t] = storePc[t]
                                     /\ asked'[t] = asked[t] /\ decision'[t] = decision[t]
      /\ keys'[s] = KnownHosts!NoRecords /\ storePc'[s] = "closed" /\ decision'[s] = "none"
  BY <1>1 DEF HostTypes
<1>4. HostsHeard'
  BY <1>1, <1>3, EmptyBook DEF HostsHeard
<1>5. PromptsRight' /\ SilenceRight'
  BY <1>1, <1>3 DEF PromptsRight, SilenceRight
<1>6. OneStoreOpen'
  BY <1>1, <1>3 DEF OneStoreOpen
<1>7. CopyIsLastWord'
  BY <1>1, <1>3 DEF CopyIsLastWord, OneStoreOpen
<1>8. KnownHosts!SilentOnlyIfRemembered'
  BY <1>1, <1>3 DEF KnownHosts!SilentOnlyIfRemembered, KnownHosts!Silently
<1>9. KnownHosts!RememberedIsOnDisk'
  BY <1>1, <1>3 DEF KnownHosts!RememberedIsOnDisk
<1> QED BY <1>2, <1>4, <1>5, <1>6, <1>7, <1>8, <1>9

LEMMA HostCheckKeeps ==
  ASSUME HostInv, NEW s \in HostStores, NEW e \in HostEndpoints, NEW key \in ShownKeys,
         KnownHosts!Check(s, e, key)
  PROVE HostInv'
<1> USE DEF HostInv
<1>1. /\ storePc[s] = "open" /\ verified < MaxCalls /\ verified' = verified + 1
      /\ asked' = [asked EXCEPT ![s] = [of |-> e, key |-> key, expected |-> KnownHosts!Known(keys[s], e)]]
      /\ UNCHANGED <<hosts, keys, said, lastWord, failures>>
  BY DEF KnownHosts!Check
<1>2. \/ /\ KnownHosts!Trusted(s, e, key)
         /\ storePc' = [storePc EXCEPT ![s] = "open"] /\ decision' = [decision EXCEPT ![s] = "silent"]
      \/ /\ ~KnownHosts!Trusted(s, e, key)
         /\ storePc' = [storePc EXCEPT ![s] = "prompt"] /\ decision' = [decision EXCEPT ![s] = "none"]
  BY DEF KnownHosts!Check, KnownHosts!Goes, KnownHosts!Decides
<1>3. keys[s] \in Books /\ key \in RawKeys /\ key # KnownHosts!NoKey
  BY ShownKeyFields DEF HostTypes
<1>4. KnownHosts!Known(keys[s], e) \in RawKeys
      /\ (KnownHosts!Trusted(s, e, key) <=> KnownHosts!Known(keys[s], e) = key)
  BY <1>3, HostKnown DEF KnownHosts!Trusted
<1>5. HostTypes'
  <2>1. [of |-> e, key |-> key, expected |-> KnownHosts!Known(keys[s], e)] \in Verifications
    BY <1>3, <1>4 DEF Verifications
  <2>2. verified' \in 0..MaxCalls
    BY <1>1, StoresAssumption DEF HostTypes
  <2> QED BY <1>1, <1>2, <2>1, <2>2 DEF HostTypes, HostSteps, HostDecisions
<1>6. /\ \A t \in HostStores \ {s} : /\ storePc'[t] = storePc[t]
                                     /\ asked'[t] = asked[t] /\ decision'[t] = decision[t]
      /\ asked'[s].of = e /\ asked'[s].key = key /\ asked'[s].expected = KnownHosts!Known(keys[s], e)
      /\ \/ KnownHosts!Known(keys[s], e) = key /\ storePc'[s] = "open" /\ decision'[s] = "silent"
         \/ KnownHosts!Known(keys[s], e) # key /\ storePc'[s] = "prompt" /\ decision'[s] = "none"
  BY <1>1, <1>2, <1>4 DEF HostTypes
<1>7. HostsHeard'
  BY <1>1 DEF HostsHeard
<1>8. PromptsRight'
  BY <1>1, <1>6 DEF PromptsRight
<1>9. SilenceRight'
  BY <1>1, <1>6 DEF SilenceRight
<1>10. OneStoreOpen'
  BY <1>1, <1>6 DEF OneStoreOpen
<1>11. CopyIsLastWord'
  BY <1>1, <1>6 DEF CopyIsLastWord
<1>12. KnownHosts!SilentOnlyIfRemembered'
  <2>1. KnownHosts!Known(keys[s], e) = key => <<e, key>> \in said
    <3>1. SUFFICES ASSUME KnownHosts!Known(keys[s], e) = key PROVE <<e, key>> \in said
      OBVIOUS
    <3>2. e \in DOMAIN keys[s] /\ keys[s][e] = key
      BY <1>3, <3>1, HostKnown
    <3>3. Heard(said, e, key)
      BY <3>2 DEF HostsHeard
    <3> QED BY <3>3, HeardExact
  <2> QED BY <1>1, <1>6, <2>1 DEF KnownHosts!SilentOnlyIfRemembered, KnownHosts!Silently
<1>13. KnownHosts!RememberedIsOnDisk'
  BY <1>1, <1>6 DEF KnownHosts!RememberedIsOnDisk
<1> QED BY <1>5, <1>7, <1>8, <1>9, <1>10, <1>11, <1>12, <1>13

LEMMA HostAnswerKeeps ==
  ASSUME HostInv, NEW s \in HostStores, NEW d \in {"once", "reject", "cancel"}, KnownHosts!Answer(s, d)
  PROVE HostInv'
<1> USE DEF HostInv
<1>1. /\ storePc[s] = "prompt" /\ storePc' = [storePc EXCEPT ![s] = "open"]
      /\ decision' = [decision EXCEPT ![s] = d]
      /\ UNCHANGED <<hosts, keys, asked, verified, said, lastWord, failures>>
  BY DEF KnownHosts!Answer, KnownHosts!Goes, KnownHosts!Decides
<1>2. HostTypes'
  BY <1>1 DEF HostTypes, HostSteps, HostDecisions
<1>3. /\ \A t \in HostStores \ {s} : storePc'[t] = storePc[t] /\ decision'[t] = decision[t]
      /\ storePc'[s] = "open" /\ decision'[s] = d
  BY <1>1 DEF HostTypes
<1>4. HostsHeard' /\ PromptsRight' /\ SilenceRight'
  BY <1>1, <1>3 DEF HostsHeard, PromptsRight, SilenceRight
<1>5. OneStoreOpen' /\ CopyIsLastWord'
  BY <1>1, <1>3 DEF OneStoreOpen, CopyIsLastWord
<1>6. KnownHosts!SilentOnlyIfRemembered' /\ KnownHosts!RememberedIsOnDisk'
  BY <1>1, <1>3
     DEF KnownHosts!SilentOnlyIfRemembered, KnownHosts!Silently, KnownHosts!RememberedIsOnDisk
<1> QED BY <1>2, <1>4, <1>5, <1>6

LEMMA HostRememberKeeps ==
  ASSUME HostInv, NEW s \in HostStores, KnownHosts!Remember(s)
  PROVE HostInv'
<1> USE DEF HostInv
<1> DEFINE e == asked[s].of
<1> DEFINE key == asked[s].key
<1>1. /\ storePc[s] = "prompt" /\ storePc' = [storePc EXCEPT ![s] = "flush"]
      /\ keys' = [keys EXCEPT ![s] = KnownHosts!Put(@, e, key)]
      /\ said' = said \cup {<<e, key>>}
      /\ lastWord' = KnownHosts!Put(lastWord, e, key)
      /\ UNCHANGED <<hosts, asked, decision, verified, failures>>
  BY DEF KnownHosts!Remember, KnownHosts!Goes
<1>2. e \in HostEndpoints /\ key \in ShownKeys /\ key \in RawKeys /\ keys[s] \in Books /\ lastWord \in Books
  BY <1>1, ShownKeyFields DEF HostTypes, Verifications, PromptsRight
<1> HIDE DEF e, key
<1>3. /\ KnownHosts!Put(keys[s], e, key) \in Books
      /\ DOMAIN KnownHosts!Put(keys[s], e, key) = DOMAIN keys[s] \cup {e}
      /\ \A x \in DOMAIN keys[s] \cup {e} : KnownHosts!Put(keys[s], e, key)[x] = IF x = e THEN key ELSE keys[s][x]
      /\ KnownHosts!Known(KnownHosts!Put(keys[s], e, key), e) = key
      /\ KnownHosts!Put(lastWord, e, key) \in Books
  <2>1. ASSUME NEW m \in Books
        PROVE /\ KnownHosts!Put(m, e, key) \in Books
              /\ DOMAIN KnownHosts!Put(m, e, key) = DOMAIN m \cup {e}
              /\ \A x \in DOMAIN m \cup {e} : KnownHosts!Put(m, e, key)[x] = IF x = e THEN key ELSE m[x]
              /\ KnownHosts!Known(KnownHosts!Put(m, e, key), e) = key
    BY <1>2, HostPut
  <2> QED BY <1>2, <2>1
<1>4. HostTypes'
  BY <1>1, <1>2, <1>3 DEF HostTypes, HostSteps
<1>5. /\ \A t \in HostStores \ {s} : storePc'[t] = storePc[t] /\ keys'[t] = keys[t]
      /\ storePc'[s] = "flush" /\ keys'[s] = KnownHosts!Put(keys[s], e, key)
  BY <1>1 DEF HostTypes
<1>6. HostsHeard'
  <2>1. \A x, k : Heard(said, x, k) => Heard(said', x, k)
    BY <1>1, HeardMore
  <2>2. Heard(said', e, key)
    BY <1>1, <1>2, HeardShown
  <2>3. \A x \in DOMAIN keys'[s] : Heard(said', x, keys'[s][x])
    BY <1>3, <1>5, <2>1, <2>2 DEF HostsHeard
  <2> QED BY <1>1, <1>5, <2>1, <2>3 DEF HostsHeard
<1>7. PromptsRight'
  BY <1>1, <1>3, <1>5 DEF PromptsRight, e, key
<1>8. SilenceRight'
  BY <1>1, <1>5 DEF SilenceRight
<1>9. OneStoreOpen'
  BY <1>1, <1>5 DEF OneStoreOpen
<1>10. CopyIsLastWord'
  BY <1>1, <1>5 DEF CopyIsLastWord, OneStoreOpen
<1>11. KnownHosts!SilentOnlyIfRemembered'
  BY <1>1 DEF KnownHosts!SilentOnlyIfRemembered, KnownHosts!Silently
<1>12. KnownHosts!RememberedIsOnDisk'
  BY <1>1, <1>5 DEF KnownHosts!RememberedIsOnDisk
<1> QED BY <1>4, <1>6, <1>7, <1>8, <1>9, <1>10, <1>11, <1>12

LEMMA HostForgetKeeps ==
  ASSUME HostInv, NEW s \in HostStores, NEW e \in HostEndpoints, KnownHosts!Forget(s, e)
  PROVE HostInv'
<1> USE DEF HostInv
<1>1. /\ storePc[s] = "open" /\ verified < MaxCalls /\ verified' = verified + 1
      /\ keys' = [keys EXCEPT ![s] = KnownHosts!Drop(@, e)]
      /\ lastWord' = KnownHosts!Drop(lastWord, e)
      /\ storePc' = [storePc EXCEPT ![s] = IF e \in DOMAIN keys[s] THEN "flush" ELSE "open"]
      /\ asked' = [asked EXCEPT ![s] = KnownHosts!Nothing]
      /\ decision' = [decision EXCEPT ![s] = "none"]
      /\ UNCHANGED <<hosts, said, failures>>
  BY DEF KnownHosts!Forget, KnownHosts!Goes, KnownHosts!Decides
<1>2. keys[s] \in Books /\ lastWord \in Books
  BY DEF HostTypes
<1>3. /\ KnownHosts!Drop(keys[s], e) \in Books
      /\ DOMAIN KnownHosts!Drop(keys[s], e) = DOMAIN keys[s] \ {e}
      /\ \A x \in DOMAIN keys[s] \ {e} : KnownHosts!Drop(keys[s], e)[x] = keys[s][x]
      /\ KnownHosts!Drop(lastWord, e) \in Books
      /\ e \notin DOMAIN lastWord => KnownHosts!Drop(lastWord, e) = lastWord
  BY <1>2, HostDrop
<1>4. HostTypes'
  <2>1. verified' \in 0..MaxCalls
    BY <1>1, StoresAssumption DEF HostTypes
  <2> QED BY <1>1, <1>3, <2>1, NothingAsked DEF HostTypes, HostSteps, HostDecisions
<1>5. /\ \A t \in HostStores \ {s} : /\ storePc'[t] = storePc[t] /\ keys'[t] = keys[t]
                                     /\ asked'[t] = asked[t] /\ decision'[t] = decision[t]
      /\ storePc'[s] = IF e \in DOMAIN keys[s] THEN "flush" ELSE "open"
      /\ keys'[s] = KnownHosts!Drop(keys[s], e)
      /\ asked'[s] = KnownHosts!Nothing /\ decision'[s] = "none"
  BY <1>1 DEF HostTypes
<1>6. HostsHeard'
  BY <1>1, <1>3, <1>5 DEF HostsHeard
<1>7. PromptsRight'
  <2>1. KnownHosts!Nothing' = KnownHosts!Nothing
    BY DEF KnownHosts!Nothing, KnownHosts!NoKey
  <2> QED BY <1>1, <1>5, <2>1 DEF PromptsRight
<1>8. SilenceRight'
  BY <1>1, <1>5 DEF SilenceRight
<1>9. OneStoreOpen'
  BY <1>1, <1>5 DEF OneStoreOpen
<1>10. CopyIsLastWord'
  BY <1>1, <1>3, <1>5 DEF CopyIsLastWord, OneStoreOpen
<1>11. KnownHosts!SilentOnlyIfRemembered'
  BY <1>1, <1>5 DEF KnownHosts!SilentOnlyIfRemembered, KnownHosts!Silently
<1>12. KnownHosts!RememberedIsOnDisk'
  BY <1>1, <1>5 DEF KnownHosts!RememberedIsOnDisk
<1> QED BY <1>4, <1>6, <1>7, <1>8, <1>9, <1>10, <1>11, <1>12

LEMMA HostFlushFailsKeeps ==
  ASSUME HostInv, NEW s \in HostStores, KnownHosts!FlushFails(s)
  PROVE HostInv'
<1> USE DEF HostInv
<1>1. /\ storePc[s] = "flush" /\ storePc' = [storePc EXCEPT ![s] = "open"]
      /\ decision' = [decision EXCEPT ![s] = "error"]
      /\ failures' = failures \cup {"failed"}
      /\ UNCHANGED <<hosts, keys, asked, verified, said, lastWord>>
  BY DEF KnownHosts!FlushFails, KnownHosts!Goes, KnownHosts!Decides
<1>2. HostTypes'
  BY <1>1 DEF HostTypes, HostSteps, HostDecisions
<1>3. /\ \A t \in HostStores \ {s} : storePc'[t] = storePc[t] /\ decision'[t] = decision[t]
      /\ storePc'[s] = "open" /\ decision'[s] = "error"
  BY <1>1 DEF HostTypes
<1>4. HostsHeard' /\ PromptsRight' /\ SilenceRight'
  BY <1>1, <1>3 DEF HostsHeard, PromptsRight, SilenceRight
<1>5. OneStoreOpen' /\ CopyIsLastWord'
  BY <1>1, <1>3 DEF OneStoreOpen, CopyIsLastWord
<1>6. KnownHosts!SilentOnlyIfRemembered' /\ KnownHosts!RememberedIsOnDisk'
  BY <1>1, <1>3
     DEF KnownHosts!SilentOnlyIfRemembered, KnownHosts!Silently, KnownHosts!RememberedIsOnDisk
<1> QED BY <1>2, <1>4, <1>5, <1>6

LEMMA HostTruncateKeeps ==
  ASSUME HostInv, NEW s \in HostStores, KnownHosts!Truncate(s)
  PROVE HostInv'
<1> USE DEF HostInv
<1>1. /\ storePc[s] = "flush" /\ storePc' = [storePc EXCEPT ![s] = "write"]
      /\ hosts' = <<>>
      /\ UNCHANGED <<keys, asked, decision, verified, said, lastWord, failures>>
  BY DEF KnownHosts!Truncate, KnownHosts!Goes
<1>2. HostTypes'
  BY <1>1 DEF HostTypes, HostSteps
<1>3. (\A t \in HostStores \ {s} : storePc'[t] = storePc[t]) /\ storePc'[s] = "write"
  BY <1>1 DEF HostTypes
<1>4. HostsHeard' /\ PromptsRight' /\ SilenceRight'
  BY <1>1, <1>3 DEF HostsHeard, PromptsRight, SilenceRight
<1>5. OneStoreOpen' /\ CopyIsLastWord'
  BY <1>1, <1>3 DEF OneStoreOpen, CopyIsLastWord
<1>6. KnownHosts!SilentOnlyIfRemembered'
  BY <1>1 DEF KnownHosts!SilentOnlyIfRemembered, KnownHosts!Silently
<1>7. KnownHosts!RememberedIsOnDisk'
  BY <1>1, <1>3 DEF KnownHosts!RememberedIsOnDisk, OneStoreOpen
<1> QED BY <1>2, <1>4, <1>5, <1>6, <1>7

LEMMA HostWriteKeeps ==
  ASSUME HostInv, NEW s \in HostStores, KnownHosts!Write(s)
  PROVE HostInv'
<1> USE DEF HostInv
<1> DEFINE new == KnownHosts!Render(keys[s])
<1>1. PICK tail \in KnownHosts!Tails : hosts' = new \o tail
  BY DEF KnownHosts!Write
<1>2. /\ storePc[s] = "write" /\ storePc' = [storePc EXCEPT ![s] = "open"]
      /\ decision' = [decision EXCEPT ![s] = IF asked[s] = KnownHosts!Nothing THEN "none" ELSE "remember"]
      /\ UNCHANGED <<keys, asked, verified, said, lastWord, failures>>
  BY DEF KnownHosts!Write, KnownHosts!Goes, KnownHosts!Decides
<1>3. hosts \in Seq(HostLines) /\ keys[s] \in Books
  BY DEF HostTypes
<1>4. /\ new \in Seq(HostLines)
      /\ \A i \in DOMAIN new : new[i].of \in DOMAIN keys[s] /\ new[i].key = keys[s][new[i].of]
      /\ ~KnownHosts!ParseFails(new) /\ KnownHosts!Parse(new) = keys[s]
  BY <1>3, HostRenderLines, HostRoundTrip
<1>5. /\ tail \in Seq(HostLines)
      /\ \A i \in DOMAIN tail : \E j \in DOMAIN hosts : tail[i].of = hosts[j].of /\ tail[i].key = hosts[j].key
      /\ hosts = <<>> => tail = <<>>
  BY <1>3, HostTails
<1> HIDE DEF new
<1>6. HostTypes'
  <2>1. hosts' \in Seq(HostLines)
    BY <1>1, <1>4, <1>5, ConcatProperties
  <2> QED BY <1>2, <2>1 DEF HostTypes, HostSteps, HostDecisions
<1>7. /\ \A t \in HostStores \ {s} : storePc'[t] = storePc[t] /\ decision'[t] = decision[t]
      /\ storePc'[s] = "open" /\ decision'[s] = IF asked[s] = KnownHosts!Nothing THEN "none" ELSE "remember"
  BY <1>2 DEF HostTypes
<1>8. HostsHeard'
  <2>1. \A i \in DOMAIN new : Heard(said, new[i].of, new[i].key)
    BY <1>4 DEF HostsHeard
  <2>2. \A i \in DOMAIN tail : Heard(said, tail[i].of, tail[i].key)
    BY <1>5 DEF HostsHeard
  <2>3. ASSUME NEW i \in DOMAIN (new \o tail)
        PROVE Heard(said, (new \o tail)[i].of, (new \o tail)[i].key)
    <3>1. Len(new) \in Nat /\ Len(tail) \in Nat /\ DOMAIN new = 1..Len(new) /\ DOMAIN tail = 1..Len(tail)
      BY <1>4, <1>5
    <3>2. i \in 1..(Len(new) + Len(tail))
          /\ (new \o tail)[i] = IF i <= Len(new) THEN new[i] ELSE tail[i - Len(new)]
      BY <1>4, <1>5
    <3>3. CASE i <= Len(new)
      BY <3>1, <3>2, <3>3, <2>1
    <3>4. CASE ~(i <= Len(new))
      <4>1. i - Len(new) \in DOMAIN tail
        BY <3>1, <3>2, <3>4
      <4> QED BY <3>2, <3>4, <4>1, <2>2
    <3> QED BY <3>3, <3>4
  <2> QED BY <1>1, <1>2, <2>3 DEF HostsHeard
<1>9. PromptsRight' /\ SilenceRight' /\ OneStoreOpen'
  BY <1>2, <1>7 DEF PromptsRight, SilenceRight, OneStoreOpen
<1>10. "overlap" \notin failures => hosts' = new
  BY <1>1, <1>2, <1>4, <1>5 DEF OneStoreOpen
<1>11. CopyIsLastWord'
  BY <1>2, <1>4, <1>7, <1>10 DEF CopyIsLastWord
<1>12. KnownHosts!SilentOnlyIfRemembered'
  BY <1>2, <1>7 DEF KnownHosts!SilentOnlyIfRemembered, KnownHosts!Silently
<1>13. KnownHosts!RememberedIsOnDisk'
  <2>1. asked[s] # KnownHosts!Nothing => KnownHosts!Known(keys[s], asked[s].of) = asked[s].key
    BY <1>2 DEF PromptsRight
  <2> QED BY <1>2, <1>4, <1>7, <1>10, <2>1 DEF KnownHosts!RememberedIsOnDisk, OneStoreOpen, SilenceRight
<1> QED BY <1>6, <1>8, <1>9, <1>11, <1>12, <1>13

LEMMA HostWriteBreaksKeeps ==
  ASSUME HostInv, NEW s \in HostStores, KnownHosts!WriteBreaks(s)
  PROVE HostInv'
<1> USE DEF HostInv
<1> DEFINE new == KnownHosts!Render(keys[s])
<1>1. PICK k \in 1..Len(new) : \E rest \in KnownHosts!Rests(new[k]) : hosts' = SubSeq(new, 1, k - 1) \o rest
  BY DEF KnownHosts!WriteBreaks
<1>2. PICK rest \in KnownHosts!Rests(new[k]) : hosts' = SubSeq(new, 1, k - 1) \o rest
  BY <1>1
<1>3. /\ storePc[s] = "write" /\ storePc' = [storePc EXCEPT ![s] = "open"]
      /\ decision' = [decision EXCEPT ![s] = "error"]
      /\ failures' = failures \cup {"failed"}
      /\ UNCHANGED <<keys, asked, verified, said, lastWord>>
  BY DEF KnownHosts!WriteBreaks, KnownHosts!Goes, KnownHosts!Decides
<1>4. keys[s] \in Books
  BY DEF HostTypes
<1>5. /\ new \in Seq(HostLines)
      /\ \A i \in DOMAIN new : new[i].of \in DOMAIN keys[s] /\ new[i].key = keys[s][new[i].of]
  BY <1>4, HostRenderLines
<1> HIDE DEF new
<1>6. \A i \in DOMAIN new : Heard(said, new[i].of, new[i].key)
  BY <1>5 DEF HostsHeard
<1>7. new[k] \in HostLines /\ Heard(said, new[k].of, new[k].key) /\ Len(new) \in Nat /\ DOMAIN new = 1..Len(new)
  BY <1>5, <1>6
<1>8. rest \in Seq(HostLines) /\ \A i \in DOMAIN rest : Heard(said, rest[i].of, rest[i].key)
  BY <1>7, HostRests
<1> DEFINE front == SubSeq(new, 1, k - 1)
<1>9. front \in Seq(HostLines) /\ Len(front) = k - 1 /\ \A i \in 1..(k - 1) : front[i] = new[i]
  BY <1>5, <1>7, SubSeqProperties
<1>10. \A i \in DOMAIN front : Heard(said, front[i].of, front[i].key)
  BY <1>6, <1>7, <1>9
<1> HIDE DEF front
<1>11. hosts' = front \o rest
  BY <1>2 DEF front
<1>12. HostTypes'
  <2>1. hosts' \in Seq(HostLines)
    BY <1>8, <1>9, <1>11, ConcatProperties
  <2> QED BY <1>3, <2>1 DEF HostTypes, HostSteps, HostDecisions
<1>13. /\ \A t \in HostStores \ {s} : storePc'[t] = storePc[t] /\ decision'[t] = decision[t]
       /\ storePc'[s] = "open" /\ decision'[s] = "error"
  BY <1>3 DEF HostTypes
<1>14. HostsHeard'
  <2>1. ASSUME NEW i \in DOMAIN (front \o rest)
        PROVE Heard(said, (front \o rest)[i].of, (front \o rest)[i].key)
    <3>1. Len(front) \in Nat /\ Len(rest) \in Nat /\ DOMAIN front = 1..Len(front) /\ DOMAIN rest = 1..Len(rest)
      BY <1>8, <1>9
    <3>2. i \in 1..(Len(front) + Len(rest))
          /\ (front \o rest)[i] = IF i <= Len(front) THEN front[i] ELSE rest[i - Len(front)]
      BY <1>8, <1>9
    <3>3. CASE i <= Len(front)
      BY <3>1, <3>2, <3>3, <1>10
    <3>4. CASE ~(i <= Len(front))
      <4>1. i - Len(front) \in DOMAIN rest
        BY <3>1, <3>2, <3>4
      <4> QED BY <3>2, <3>4, <4>1, <1>8
    <3> QED BY <3>3, <3>4
  <2> QED BY <1>3, <1>11, <2>1 DEF HostsHeard
<1>15. PromptsRight' /\ SilenceRight'
  BY <1>3, <1>13 DEF PromptsRight, SilenceRight
<1>16. OneStoreOpen' /\ CopyIsLastWord'
  BY <1>3, <1>13 DEF OneStoreOpen, CopyIsLastWord
<1>17. KnownHosts!SilentOnlyIfRemembered'
  BY <1>3, <1>13 DEF KnownHosts!SilentOnlyIfRemembered, KnownHosts!Silently
<1>18. KnownHosts!RememberedIsOnDisk'
  BY <1>3, <1>13 DEF KnownHosts!RememberedIsOnDisk, OneStoreOpen
<1> QED BY <1>12, <1>14, <1>15, <1>16, <1>17, <1>18

\* Every step of the known hosts keeps the invariant.
LEMMA HostNextKeeps == HostInv /\ KnownHosts!Next => HostInv'
<1> SUFFICES ASSUME HostInv, KnownHosts!Next PROVE HostInv'
  OBVIOUS
<1>1. PICK s \in HostStores :
        \/ KnownHosts!Open(s) \/ KnownHosts!Close(s) \/ KnownHosts!Remember(s) \/ KnownHosts!FlushFails(s)
        \/ KnownHosts!Truncate(s) \/ KnownHosts!Write(s) \/ KnownHosts!WriteBreaks(s)
        \/ \E d \in {"once", "reject", "cancel"} : KnownHosts!Answer(s, d)
        \/ \E e \in HostEndpoints : KnownHosts!Forget(s, e) \/ \E key \in ShownKeys : KnownHosts!Check(s, e, key)
  BY Zenon DEF KnownHosts!Next, KnownHosts!Endpoints, HostEndpoints
<1> QED
  BY <1>1, HostOpenKeeps, HostCloseKeeps, HostRememberKeeps, HostFlushFailsKeeps, HostTruncateKeeps,
     HostWriteKeeps, HostWriteBreaksKeeps, HostAnswerKeeps, HostForgetKeeps, HostCheckKeeps

\* The invariant is about nothing but the state of the known hosts.
LEMMA HostStutterKeeps == HostInv /\ UNCHANGED hostVars => HostInv'
<1> SUFFICES ASSUME HostInv, UNCHANGED hostVars PROVE HostInv'
  OBVIOUS
<1> USE DEF hostVars, HostInv
<1>1. HostTypes'
  BY DEF HostTypes
<1>2. HostsHeard' /\ PromptsRight' /\ SilenceRight'
  BY DEF HostsHeard, PromptsRight, SilenceRight
<1>3. OneStoreOpen' /\ CopyIsLastWord'
  BY DEF OneStoreOpen, CopyIsLastWord
<1>4. KnownHosts!SilentOnlyIfRemembered' /\ KnownHosts!RememberedIsOnDisk'
  BY DEF KnownHosts!SilentOnlyIfRemembered, KnownHosts!Silently, KnownHosts!RememberedIsOnDisk
<1> QED BY <1>1, <1>2, <1>3, <1>4

\* Every step of the stores is one of the known hosts or leaves them alone.
LEMMA StoresStepOfHosts ==
  [UseSessions \/ UseHosts \/ UseSites \/ UseLines]_allVars => KnownHosts!Next \/ UNCHANGED hostVars
  BY DEF UseSessions, UseHosts, UseSites, UseLines, allVars

LEMMA HostInvHolds == StoresSpec => []HostInv
<1>1. StoresInit => HostInv
  BY HostInitRight DEF StoresInit
<1>2. HostInv /\ [UseSessions \/ UseHosts \/ UseSites \/ UseLines]_allVars => HostInv'
  BY StoresStepOfHosts, HostNextKeeps, HostStutterKeeps
<1> QED BY <1>1, <1>2, PTL DEF StoresSpec

LEMMA HostInvTrusts == HostInv => KeysAreTrusted
<1> SUFFICES ASSUME HostInv PROVE KeysAreTrusted
  OBVIOUS
<1> USE DEF HostInv
<1>1. KnownHosts!TypeOK
  <2>1. \A s \in HostStores : DOMAIN keys[s] \subseteq HostEndpoints /\ asked[s].of \in HostEndpoints
    BY BookIsFunction DEF HostTypes, Verifications
  <2>2. \A s \in HostStores : storePc[s] = "prompt" => asked[s].key # KnownHosts!Known(keys[s], asked[s].of)
    BY DEF PromptsRight
  <2> QED BY <2>1, <2>2
          DEF KnownHosts!TypeOK, HostTypes, HostSteps, HostDecisions, KnownHosts!Endpoints, HostEndpoints
<1>2. KnownHosts!SilentFollowsLastWord
  BY DEF KnownHosts!SilentFollowsLastWord, KnownHosts!Silently, SilenceRight, CopyIsLastWord
<1> QED BY <1>1, <1>2 DEF KeysAreTrusted

\* A host key is accepted without a prompt only if a user asked to remember
\* just this key of this endpoint, whatever broke off; as long as nothing
\* failed the last word counts; and who is told that a key was remembered finds
\* it in the file: for any number of stores, endpoints, keys and calls.
THEOREM KeysAreTrustedAlways == StoresSpec => []KeysAreTrusted
  BY HostInvHolds, HostInvTrusts, PTL

\* A store changes its mind about an endpoint only on a prompt that showed the
\* key it had, and only to the key the prompt was about.
THEOREM KeysChangeOnlyAfterPromptAlways == StoresSpec => KeysChangeOnlyAfterPrompt
<1> DEFINE Shown ==
      \A s \in HostStores, e \in KnownHosts!Endpoints :
        storePc[s] \notin {"closed"} /\ storePc'[s] # "closed"
        /\ KnownHosts!Known(keys'[s], e) \notin {KnownHosts!NoKey, KnownHosts!Known(keys[s], e)}
        => /\ storePc[s] = "prompt" /\ asked[s].of = e
           /\ asked[s].expected = KnownHosts!Known(keys[s], e)
           /\ KnownHosts!Known(keys'[s], e) = asked[s].key
<1>1. HostInv /\ KnownHosts!Next => Shown
  <2> SUFFICES ASSUME HostInv, KnownHosts!Next,
                      NEW s \in HostStores, NEW e \in HostEndpoints,
                      storePc[s] # "closed", storePc'[s] # "closed",
                      KnownHosts!Known(keys'[s], e) # KnownHosts!NoKey,
                      KnownHosts!Known(keys'[s], e) # KnownHosts!Known(keys[s], e)
               PROVE /\ storePc[s] = "prompt" /\ asked[s].of = e
                     /\ asked[s].expected = KnownHosts!Known(keys[s], e)
                     /\ KnownHosts!Known(keys'[s], e) = asked[s].key
    BY DEF KnownHosts!Endpoints, HostEndpoints
  <2>0. storePc \in [HostStores -> HostSteps] /\ keys \in [HostStores -> Books] /\ keys[s] \in Books
    BY DEF HostInv, HostTypes
  <2>1. keys'[s] # keys[s]
    BY DEF KnownHosts!Known
  <2>2. PICK t \in HostStores :
          \/ KnownHosts!Open(t) \/ KnownHosts!Close(t) \/ KnownHosts!Remember(t)
          \/ \E x \in HostEndpoints : KnownHosts!Forget(t, x)
    BY <2>1 DEF KnownHosts!Next, KnownHosts!Endpoints, HostEndpoints, KnownHosts!FlushFails,
       KnownHosts!Truncate, KnownHosts!Write, KnownHosts!WriteBreaks, KnownHosts!Answer, KnownHosts!Check
  <2>3. CASE KnownHosts!Open(t)
    BY <2>0, <2>1, <2>3 DEF KnownHosts!Open
  <2>4. CASE KnownHosts!Close(t)
    BY <2>0, <2>1, <2>4 DEF KnownHosts!Close, KnownHosts!Goes
  <2>5. CASE \E x \in HostEndpoints : KnownHosts!Forget(t, x)
    <3>1. PICK x \in HostEndpoints : keys' = [keys EXCEPT ![t] = KnownHosts!Drop(@, x)]
      BY <2>5 DEF KnownHosts!Forget
    <3>2. s = t /\ keys'[s] = KnownHosts!Drop(keys[s], x)
      BY <2>0, <2>1, <3>1
    <3> DEFINE m == keys[s]
    <3> DEFINE n == KnownHosts!Drop(m, x)
    <3>3. m \in Books
      BY <2>0
    <3> HIDE DEF m
    <3>4. DOMAIN n = DOMAIN m \ {x} /\ \A y \in DOMAIN m \ {x} : n[y] = m[y]
      BY <3>3, HostDrop
    <3> HIDE DEF n
    <3>5. KnownHosts!Known(n, e) = KnownHosts!NoKey \/ KnownHosts!Known(n, e) = KnownHosts!Known(m, e)
      BY <3>4 DEF KnownHosts!Known
    <3>6. keys'[s] = n
      BY <3>2 DEF n, m
    <3> QED BY <3>5, <3>6 DEF m
  <2>6. CASE KnownHosts!Remember(t)
    <3>1. /\ storePc[t] = "prompt"
          /\ keys' = [keys EXCEPT ![t] = KnownHosts!Put(@, asked[t].of, asked[t].key)]
      BY <2>6 DEF KnownHosts!Remember
    <3>2. s = t /\ keys'[s] = KnownHosts!Put(keys[s], asked[s].of, asked[s].key)
      BY <2>0, <2>1, <3>1
    <3>3. asked[s].of \in HostEndpoints /\ asked[s].key \in RawKeys
          /\ asked[s].expected = KnownHosts!Known(keys[s], asked[s].of)
      BY <3>1, <3>2 DEF HostInv, HostTypes, Verifications, PromptsRight
    <3> DEFINE of == asked[s].of
    <3> DEFINE key == asked[s].key
    <3> DEFINE m == keys[s]
    <3>0. m \in Books /\ of \in HostEndpoints /\ key \in RawKeys
      BY <2>0, <3>3
    <3> HIDE DEF of, key, m
    <3>4. /\ DOMAIN KnownHosts!Put(m, of, key) = DOMAIN m \cup {of}
          /\ \A x \in DOMAIN m \cup {of} : KnownHosts!Put(m, of, key)[x] = IF x = of THEN key ELSE m[x]
          /\ KnownHosts!Known(KnownHosts!Put(m, of, key), of) = key
      <4>1. ASSUME NEW o \in HostEndpoints, NEW k \in RawKeys
            PROVE /\ DOMAIN KnownHosts!Put(m, o, k) = DOMAIN m \cup {o}
                  /\ \A x \in DOMAIN m \cup {o} : KnownHosts!Put(m, o, k)[x] = IF x = o THEN k ELSE m[x]
                  /\ KnownHosts!Known(KnownHosts!Put(m, o, k), o) = k
        <5>1. m \in Books
          BY <3>0
        <5> QED BY ONLY <5>1, <4>1, HostPut
      <4> QED BY <3>0, <4>1
    <3>5. keys'[s] = KnownHosts!Put(m, of, key)
      BY <3>2 DEF of, key, m
    <3>6. of = e
      <4>1. SUFFICES ASSUME of # e PROVE KnownHosts!Known(keys'[s], e) = KnownHosts!Known(m, e)
        BY DEF m
      <4> QED BY <3>4, <3>5, <4>1 DEF KnownHosts!Known
    <3> QED BY <3>1, <3>2, <3>3, <3>4, <3>5, <3>6 DEF of, key, m
  <2> QED BY <2>2, <2>3, <2>4, <2>5, <2>6
<1>2. HostInv /\ UNCHANGED hostVars => Shown
  BY DEF hostVars
<1>3. HostInv /\ [UseSessions \/ UseHosts \/ UseSites \/ UseLines]_allVars => Shown
  BY <1>1, <1>2, StoresStepOfHosts
<1> HIDE DEF Shown
<1>4. StoresSpec => [][Shown]_hostVars
  BY <1>3, HostInvHolds, PTL DEF StoresSpec
<1> QED BY <1>4, PTL DEF KeysChangeOnlyAfterPrompt, KnownHosts!ReplacedOnlyAfterShown, KnownHosts!vars, hostVars, Shown

-----------------------------------------------------------------------------
(* The session store                                                       *)

SessionNames == {SessionOrder[i] : i \in DOMAIN SessionOrder}
RawProfiles == [name : SessionNames, protocol : STRING, host : STRING, port : STRING, cred : Nat]
SessionLines == [of : RawProfiles, kind : {"whole", "cut"}]
Shelves == UNION {[D -> RawProfiles] : D \in SUBSET SessionNames}

\* Every profile stands under its name and is one that could be saved.
WellKept(m) == \A n \in DOMAIN m : m[n].name = n /\ Sessions!Validates(m[n])

LEMMA ShelfIsFunction ==
  ASSUME NEW m \in Shelves
  PROVE m \in [DOMAIN m -> RawProfiles] /\ DOMAIN m \subseteq SessionNames
  BY DEF Shelves

LEMMA SessionRenderLines ==
  ASSUME NEW m \in Shelves, WellKept(m)
  PROVE LET text == Sessions!Render(m) IN
        /\ text \in Seq(SessionLines)
        /\ \A i \in DOMAIN text : /\ text[i].of.name \in DOMAIN m /\ text[i].of = m[text[i].of.name]
                                  /\ text[i].kind = "whole"
        /\ \A n \in DOMAIN m : \E i \in DOMAIN text : text[i].of.name = n
        /\ \A i, j \in DOMAIN text : text[i].of.name = text[j].of.name => i = j
<1> DEFINE D == DOMAIN m
<1> DEFINE ns == Select(SessionOrder, D)
<1>1. m \in [D -> RawProfiles] /\ D \subseteq SessionNames
  BY ShelfIsFunction
<1>2. SessionOrder \in Seq(STRING) /\ NoRepetition(SessionOrder)
  BY StoresAssumption DEF SessionsAssumption
<1>2a. SessionOrder \in Seq(SessionNames)
  BY <1>2 DEF SessionNames
<1>2b. \A n \in D : m[n].name = n
  BY DEF WellKept
<1> HIDE DEF D
<1>3. ns \in Seq(SessionNames \cap D)
  BY <1>2a, SelectPicks
<1>4. PICK at : PickedAt(at, ns, SessionOrder, D)
  BY <1>2a, SelectPicks
<1>5. \A i, j \in 1..Len(ns) : ns[i] = ns[j] => i = j
  <2> HIDE DEF ns
  <2>0. Len(ns) \in Nat
    BY <1>3
  <2>1. SUFFICES ASSUME NEW i \in 1..Len(ns), NEW j \in 1..Len(ns), ns[i] = ns[j], i < j PROVE FALSE
    BY <2>0
  <2>2. SessionOrder[at[i]] = SessionOrder[at[j]] /\ at[i] \in DOMAIN SessionOrder /\ at[j] \in DOMAIN SessionOrder
    BY <2>1, <1>4, <1>2a DEF PickedAt
  <2>3. at[i] = at[j]
    BY <2>2, <1>2 DEF NoRepetition
  <2> QED BY <2>1, <2>3, <1>4 DEF PickedAt
<1>6. \A n \in D : \E i \in 1..Len(ns) : ns[i] = n
  <2> SUFFICES ASSUME NEW n \in D PROVE \E i \in 1..Len(ns) : ns[i] = n
    OBVIOUS
  <2>1. PICK k \in 1..Len(SessionOrder) : SessionOrder[k] = n
    BY <1>1, <1>2 DEF SessionNames
  <2> QED BY <2>1, <1>4 DEF PickedAt
<1> DEFINE text == [i \in DOMAIN ns |-> [of |-> m[ns[i]], kind |-> "whole"]]
<1>7. Sessions!Render(m) = text
  BY DEF Sessions!Render, Sessions!Select, Select, Sessions!Whole, D
<1>8. DOMAIN ns = 1..Len(ns) /\ Len(ns) \in Nat
  BY <1>3
<1>9. text \in Seq(SessionLines) /\ DOMAIN text = 1..Len(ns)
  <2> HIDE DEF ns
  <2>1. \A i \in 1..Len(ns) : text[i] \in SessionLines
    BY <1>3, <1>1, <1>8 DEF SessionLines
  <2>2. text \in [1..Len(ns) -> SessionLines]
    BY <2>1, <1>8
  <2> QED BY <2>2, <1>8
<1>10. \A i \in DOMAIN text : /\ text[i].of = m[ns[i]] /\ text[i].kind = "whole" /\ ns[i] \in D
                              /\ m[ns[i]].name = ns[i]
  <2> HIDE DEF ns
  <2> QED BY <1>3, <1>8, <1>2b
<1> HIDE DEF ns, text
<1> QED BY <1>5, <1>6, <1>7, <1>9, <1>10 DEF D

\* What Parse takes for a name stands on a line of that name that is no comment.
LEMMA SessionParseReads ==
  ASSUME NEW text \in Seq(SessionLines)
  PROVE LET p == Sessions!Parse(text) IN
        /\ p \in Shelves
        /\ DOMAIN p = {line.of.name : line \in Sessions!Read(text)}
        /\ \A n \in DOMAIN p :
             \E i \in DOMAIN text : text[i].of.name = n /\ text[i] \in Sessions!Read(text) /\ p[n] = text[i].of
<1> DEFINE D == {line.of.name : line \in Sessions!Read(text)}
<1> DEFINE last(n) == CHOOSE i \in DOMAIN text :
                        /\ text[i].of.name = n
                        /\ \A j \in i + 1..Len(text) : text[j].of.name # n
<1>0. \A i \in DOMAIN text : text[i] \in SessionLines
  OBVIOUS
<1>1. ASSUME NEW n \in D PROVE last(n) \in DOMAIN text /\ text[last(n)].of.name = n
  <2> DEFINE T == {i \in DOMAIN text : text[i].of.name = n}
  <2>1. Len(text) \in Nat /\ DOMAIN text = 1..Len(text)
    OBVIOUS
  <2>2. T \in SUBSET (1..Len(text)) /\ T # {}
    BY <2>1 DEF Sessions!Read
  <2>3. PICK m \in T : \A k \in T : k <= m
    <3> HIDE DEF T
    <3> QED BY <2>1, <2>2, LastPosition
  <2>4. m \in DOMAIN text /\ text[m].of.name = n /\ \A j \in m + 1..Len(text) : text[j].of.name # n
    BY <2>1, <2>3
  <2> QED BY <2>4
<1>2. \A n \in D : n \notin HashedNames
  BY DEF Sessions!Read, Sessions!IsComment
<1>3. \A n \in D : text[last(n)] \in Sessions!Read(text)
  <2> HIDE DEF last, D
  <2> QED BY <1>1, <1>2 DEF Sessions!Read, Sessions!IsComment
<1> HIDE DEF last
<1>4. Sessions!Parse(text) = [n \in D |-> text[last(n)].of]
  BY DEF Sessions!Parse, last
<1>5. D \subseteq SessionNames
  BY <1>0 DEF SessionLines, RawProfiles, Sessions!Read
<1> HIDE DEF D
<1>6. \A n \in D : text[last(n)].of \in RawProfiles
  BY <1>0, <1>1 DEF SessionLines
<1>7. [n \in D |-> text[last(n)].of] \in [D -> RawProfiles]
  BY <1>6
<1>8. Sessions!Parse(text) \in Shelves
  BY <1>4, <1>5, <1>7 DEF Shelves
<1>9. DOMAIN Sessions!Parse(text) = D /\ \A n \in D : Sessions!Parse(text)[n] = text[last(n)].of
  BY <1>4
<1> QED BY <1>1, <1>3, <1>8, <1>9 DEF D

LEMMA SessionRoundTrip ==
  ASSUME NEW m \in Shelves, WellKept(m), \A n \in DOMAIN m : n \notin HashedNames
  PROVE ~Sessions!ParseFails(Sessions!Render(m)) /\ Sessions!Parse(Sessions!Render(m)) = m
<1> DEFINE text == Sessions!Render(m)
<1>1. /\ text \in Seq(SessionLines)
      /\ \A i \in DOMAIN text : /\ text[i].of.name \in DOMAIN m /\ text[i].of = m[text[i].of.name]
                                /\ text[i].kind = "whole"
      /\ \A n \in DOMAIN m : \E i \in DOMAIN text : text[i].of.name = n
  BY SessionRenderLines
<1> HIDE DEF text
<1>2. \A line \in Sessions!Read(text) : line.kind = "whole" /\ Sessions!Validates(line.of)
  BY <1>1 DEF Sessions!Read, WellKept
<1>3. ~Sessions!ParseFails(text)
  BY <1>2 DEF Sessions!ParseFails
<1>4. \A i \in DOMAIN text : text[i] \in Sessions!Read(text)
  BY <1>1 DEF Sessions!Read, Sessions!IsComment
<1> DEFINE p == Sessions!Parse(text)
<1>5. /\ p \in Shelves /\ DOMAIN p = {line.of.name : line \in Sessions!Read(text)}
      /\ \A n \in DOMAIN p : \E i \in DOMAIN text : text[i].of.name = n /\ p[n] = text[i].of
  BY <1>1, SessionParseReads
<1> HIDE DEF p
<1>6. DOMAIN p = DOMAIN m
  BY <1>1, <1>4, <1>5 DEF Sessions!Read
<1>7. ASSUME NEW n \in DOMAIN m PROVE p[n] = m[n]
  <2>1. PICK i \in DOMAIN text : text[i].of.name = n /\ p[n] = text[i].of
    BY <1>5, <1>6
  <2>2. text[i].of = m[text[i].of.name]
    BY <1>1
  <2> QED BY <2>1, <2>2
<1>8. p = m
  BY <1>5, <1>6, <1>7, ShelfIsFunction
<1> QED BY <1>3, <1>8 DEF p, text

LEMMA SessionEmptyFile == ~Sessions!ParseFails(<<>>) /\ Sessions!Parse(<<>>) = <<>>
<1>1. Sessions!Read(<<>>) = {}
  BY DEF Sessions!Read
<1>2. {line.of.name : line \in Sessions!Read(<<>>)} = {}
  BY <1>1
<1>3. Sessions!Parse(<<>>) \in [{} -> {}]
  BY <1>2 DEF Sessions!Parse
<1>4. <<>> \in [{} -> {}]
  OBVIOUS
<1>5. Sessions!Parse(<<>>) = <<>>
  BY <1>3, <1>4
<1> QED BY <1>1, <1>5 DEF Sessions!ParseFails

\* The profile was given to save, but for the end of its credential.
FromSaved(given, q) == \E g \in given : q = [g EXCEPT !.cred = q.cred] /\ q.cred <= g.cred

LEMMA FromSavedItself ==
  ASSUME NEW given \in SUBSET RawProfiles, NEW q \in given
  PROVE FromSaved(given, q)
<1>1. q \in RawProfiles
  OBVIOUS
<1>2. q = [q EXCEPT !.cred = q.cred] /\ q.cred <= q.cred
  BY <1>1 DEF RawProfiles
<1> QED BY <1>2 DEF FromSaved

LEMMA FromSavedShorter ==
  ASSUME NEW given \in SUBSET RawProfiles, NEW q \in RawProfiles, FromSaved(given, q), NEW c \in 0..q.cred
  PROVE FromSaved(given, [q EXCEPT !.cred = c]) /\ [q EXCEPT !.cred = c] \in RawProfiles
<1>1. PICK g \in given : q = [g EXCEPT !.cred = q.cred] /\ q.cred <= g.cred
  BY DEF FromSaved
<1>2. g \in RawProfiles /\ q.cred \in Nat /\ g.cred \in Nat
  BY DEF RawProfiles
<1> DEFINE r == [q EXCEPT !.cred = c]
<1>3. r.cred = c /\ r \in RawProfiles
  BY <1>2 DEF RawProfiles
<1>4. r = [g EXCEPT !.cred = c]
  BY <1>1, <1>2 DEF RawProfiles
<1>5. c <= g.cred
  BY <1>1, <1>2
<1> HIDE DEF r
<1>6. r = [g EXCEPT !.cred = r.cred] /\ r.cred <= g.cred
  BY <1>3, <1>4, <1>5
<1>7. FromSaved(given, r)
  BY <1>6 DEF FromSaved
<1> QED BY <1>3, <1>7 DEF r

LEMMA SessionTails ==
  ASSUME NEW old \in Seq(SessionLines), NEW new, NEW tail \in Sessions!Tails(old, new)
  PROVE /\ tail \in Seq(SessionLines)
        /\ \A i \in DOMAIN tail : \E j \in DOMAIN old : tail[i].of = old[j].of
<1>1. CASE tail = <<>>
  BY <1>1
<1>2. ASSUME NEW k \in DOMAIN old,
             \/ tail = SubSeq(old, k, Len(old))
             \/ tail = <<Sessions!CutShort(old[k].of)>> \o SubSeq(old, k + 1, Len(old))
      PROVE /\ tail \in Seq(SessionLines)
            /\ \A i \in DOMAIN tail : \E j \in DOMAIN old : tail[i].of = old[j].of
  <2>0. DOMAIN old = 1..Len(old) /\ Len(old) \in Nat /\ k \in 1..Len(old)
    BY <1>2
  <2>1. CASE tail = SubSeq(old, k, Len(old))
    <3>1. tail \in Seq(SessionLines) /\ Len(tail) = Len(old) - k + 1
          /\ \A i \in 1..(Len(old) - k + 1) : tail[i] = old[k + i - 1]
      BY <2>0, <2>1, SubSeqProperties
    <3>2. \A i \in DOMAIN tail : k + i - 1 \in DOMAIN old /\ tail[i] = old[k + i - 1]
      BY <2>0, <3>1
    <3> QED BY <3>1, <3>2
  <2>2. CASE tail = <<Sessions!CutShort(old[k].of)>> \o SubSeq(old, k + 1, Len(old))
    <3> DEFINE first == Sessions!CutShort(old[k].of)
    <3> DEFINE rest == SubSeq(old, k + 1, Len(old))
    <3>1. old[k] \in SessionLines
      OBVIOUS
    <3>2. first \in SessionLines /\ first.of = old[k].of
      BY <3>1 DEF SessionLines, Sessions!CutShort
    <3>3. rest \in Seq(SessionLines) /\ Len(rest) = Len(old) - k
          /\ \A i \in 1..(Len(old) - k) : rest[i] = old[k + i]
      BY <2>0, SubSeqProperties
    <3> HIDE DEF first, rest
    <3>4. <<first>> \o rest \in Seq(SessionLines) /\ Len(<<first>> \o rest) = 1 + Len(rest)
          /\ (<<first>> \o rest)[1] = first
          /\ \A i \in 1..Len(rest) : (<<first>> \o rest)[i + 1] = rest[i]
      BY <3>2, <3>3
    <3>5. tail = <<first>> \o rest
      BY <2>2 DEF first, rest
    <3>6. ASSUME NEW i \in DOMAIN tail PROVE \E j \in DOMAIN old : tail[i].of = old[j].of
      <4>1. CASE i = 1
        BY <4>1, <3>2, <3>4, <3>5
      <4>2. CASE i # 1
        <5>1. i - 1 \in 1..Len(rest) /\ k + (i - 1) \in DOMAIN old
          BY <4>2, <3>3, <3>4, <3>5, <2>0
        <5>2. tail[(i - 1) + 1] = rest[i - 1] /\ rest[i - 1] = old[k + (i - 1)]
          BY <5>1, <3>3, <3>4, <3>5
        <5>3. tail[i] = old[k + (i - 1)]
          BY <5>2, <3>3, <3>4, <3>5
        <5> QED BY <5>1, <5>3
      <4> QED BY <4>1, <4>2
    <3> QED BY <3>4, <3>5, <3>6
  <2> QED BY <1>2, <2>1, <2>2
<1>3. tail = <<>> \/ \E k \in DOMAIN old :
             \/ tail = SubSeq(old, k, Len(old))
             \/ tail = <<Sessions!CutShort(old[k].of)>> \o SubSeq(old, k + 1, Len(old))
  BY Zenon DEF Sessions!Tails
<1> QED BY <1>1, <1>2, <1>3

LEMMA SessionRests ==
  ASSUME NEW line \in SessionLines, NEW given \in SUBSET RawProfiles, FromSaved(given, line.of),
         NEW rest \in Sessions!Rests(line)
  PROVE /\ rest \in Seq(SessionLines)
        /\ \A i \in DOMAIN rest : FromSaved(given, rest[i].of)
<1> DEFINE broken == Sessions!CutShort(line.of)
<1> DEFINE short(c) == Sessions!Whole([line.of EXCEPT !.cred = c])
<1>0. line.of \in RawProfiles
  BY DEF SessionLines
<1>1. CASE rest = <<>>
  BY <1>1
<1>2. CASE rest = <<broken>>
  <2>1. broken \in SessionLines /\ broken.of = line.of
    BY <1>0 DEF SessionLines, Sessions!CutShort
  <2> HIDE DEF broken
  <2> QED BY <1>2, <2>1
<1>3. ASSUME NEW c \in 0..line.of.cred, rest = <<short(c)>>
      PROVE /\ rest \in Seq(SessionLines)
            /\ \A i \in DOMAIN rest : FromSaved(given, rest[i].of)
  <2>1. FromSaved(given, [line.of EXCEPT !.cred = c]) /\ [line.of EXCEPT !.cred = c] \in RawProfiles
    BY <1>0, FromSavedShorter
  <2>2. short(c) \in SessionLines /\ short(c).of = [line.of EXCEPT !.cred = c]
    BY <2>1 DEF SessionLines, Sessions!Whole
  <2> HIDE DEF short
  <2> QED BY <1>3, <2>1, <2>2
<1>4. rest = <<>> \/ rest = <<broken>> \/ \E c \in 0..line.of.cred : rest = <<short(c)>>
  BY DEF Sessions!Rests
<1> QED BY <1>1, <1>2, <1>3, <1>4

-----------------------------------------------------------------------------

SessionSteps == {"closed", "open", "flush", "write"}

SessionTypes ==
  /\ pc \in [Processes -> SessionSteps]
  /\ memory \in [Processes -> Shelves]
  /\ file \in [there : BOOLEAN, lines : Seq(SessionLines)]
  /\ synced \subseteq Processes /\ saved \subseteq Profiles /\ expected \in Shelves
  /\ ops \in 0..MaxCalls /\ mishaps \subseteq {"overlap", "cut"}

\* The copies and the file hold what was given to save, or the beginning of it,
\* and what could be saved.
CopiesAreKept == \A p \in Processes : WellKept(memory[p])
ProfilesFromSaved ==
  /\ \A p \in Processes : \A n \in DOMAIN memory[p] : FromSaved(saved, memory[p][n])
  /\ \A i \in DOMAIN file.lines : FromSaved(saved, file.lines[i].of)

SyncedAreOpen == \A p \in synced : pc[p] = "open"

\* Without an overlap at most one process has the store open, and it has
\* emptied the file when it is about to write.
OneProcessOpen ==
  "overlap" \notin mishaps =>
    /\ \A p, q \in Processes : pc[p] # "closed" /\ pc[q] # "closed" => p = q
    /\ \A p \in Processes : pc[p] = "write" => file.lines = <<>>

SessionInv ==
  /\ SessionTypes /\ CopiesAreKept /\ ProfilesFromSaved /\ SyncedAreOpen /\ OneProcessOpen
  /\ Sessions!SyncedIsOnDisk
  /\ Sessions!NothingLostWithoutMishap

LEMMA ProfilesAreRaw == Profiles \subseteq RawProfiles
  BY StoresAssumption DEF SessionsAssumption, RawProfiles, SessionNames

LEMMA EmptyShelf == Sessions!NoProfiles \in Shelves /\ DOMAIN Sessions!NoProfiles = {}
<1>1. <<>> \in [{} -> RawProfiles]
  OBVIOUS
<1> QED BY <1>1 DEF Sessions!NoProfiles, Shelves

LEMMA ShelfPut ==
  ASSUME NEW m \in Shelves, WellKept(m), NEW q \in RawProfiles, Sessions!Validates(q)
  PROVE /\ Sessions!Put(m, q) \in Shelves /\ WellKept(Sessions!Put(m, q))
        /\ DOMAIN Sessions!Put(m, q) = DOMAIN m \cup {q.name}
        /\ \A n \in DOMAIN m \cup {q.name} : Sessions!Put(m, q)[n] = IF n = q.name THEN q ELSE m[n]
<1> DEFINE D == DOMAIN m \cup {q.name}
<1> DEFINE r == [n \in D |-> IF n = q.name THEN q ELSE m[n]]
<1>1. m \in [DOMAIN m -> RawProfiles] /\ DOMAIN m \subseteq SessionNames /\ q.name \in SessionNames
  BY ShelfIsFunction DEF RawProfiles
<1>2. Sessions!Put(m, q) = r
  BY DEF Sessions!Put
<1>3. D \in SUBSET SessionNames /\ \A n \in D : (IF n = q.name THEN q ELSE m[n]) \in RawProfiles
  BY <1>1
<1>4. r \in [D -> RawProfiles] /\ DOMAIN r = D
  <2> HIDE DEF D
  <2> QED BY <1>3
<1>5. \A n \in D : r[n] = IF n = q.name THEN q ELSE m[n]
  OBVIOUS
<1>6. WellKept(r)
  <2> HIDE DEF r
  <2> QED BY <1>4, <1>5 DEF WellKept
<1> HIDE DEF r, D
<1>7. r \in Shelves
  BY <1>3, <1>4 DEF Shelves
<1> QED BY <1>2, <1>4, <1>5, <1>6, <1>7 DEF D

LEMMA ShelfDrop ==
  ASSUME NEW m \in Shelves, WellKept(m), NEW name
  PROVE /\ Sessions!Drop(m, name) \in Shelves /\ WellKept(Sessions!Drop(m, name))
        /\ DOMAIN Sessions!Drop(m, name) = DOMAIN m \ {name}
        /\ \A n \in DOMAIN m \ {name} : Sessions!Drop(m, name)[n] = m[n]
<1> DEFINE D == DOMAIN m \ {name}
<1> DEFINE r == [n \in D |-> m[n]]
<1>1. m \in [DOMAIN m -> RawProfiles] /\ DOMAIN m \subseteq SessionNames
  BY ShelfIsFunction
<1>2. Sessions!Drop(m, name) = r
  BY DEF Sessions!Drop
<1>3. D \in SUBSET SessionNames /\ \A n \in D : m[n] \in RawProfiles
  BY <1>1
<1>4. r \in [D -> RawProfiles] /\ DOMAIN r = D
  <2> HIDE DEF D
  <2> QED BY <1>3
<1>5. \A n \in D : r[n] = m[n]
  OBVIOUS
<1>6. WellKept(r)
  <2> HIDE DEF r
  <2> QED BY <1>4, <1>5 DEF WellKept
<1> HIDE DEF r, D
<1>7. r \in Shelves
  BY <1>3, <1>4 DEF Shelves
<1> QED BY <1>2, <1>4, <1>5, <1>6, <1>7 DEF D

LEMMA FromSavedMore ==
  ASSUME NEW given, NEW more, given \subseteq more, NEW q, FromSaved(given, q)
  PROVE FromSaved(more, q)
  BY DEF FromSaved

LEMMA SessionInitRight == Sessions!Init => SessionInv
<1> SUFFICES ASSUME Sessions!Init PROVE SessionInv
  OBVIOUS
<1> USE DEF Sessions!Init
<1>1. SessionTypes
  BY EmptyShelf, StoresAssumption DEF SessionTypes, SessionSteps, Sessions!NoProfiles
<1>2. CopiesAreKept /\ ProfilesFromSaved /\ SyncedAreOpen /\ OneProcessOpen
  BY EmptyShelf DEF CopiesAreKept, ProfilesFromSaved, SyncedAreOpen, OneProcessOpen, WellKept
<1>3. Sessions!SyncedIsOnDisk /\ Sessions!NothingLostWithoutMishap
  BY SessionEmptyFile DEF Sessions!SyncedIsOnDisk, Sessions!NothingLostWithoutMishap, Sessions!NoProfiles
<1> QED BY <1>1, <1>2, <1>3 DEF SessionInv

LEMMA SessionOpenKeeps ==
  ASSUME SessionInv, NEW p \in Processes, Sessions!Open(p)
  PROVE SessionInv'
<1> USE DEF SessionInv
<1> DEFINE new == Sessions!Parse(file.lines)
<1>1. /\ pc[p] = "closed" /\ ~Sessions!ParseFails(file.lines)
      /\ memory' = [memory EXCEPT ![p] = new]
      /\ pc' = [pc EXCEPT ![p] = "open"] /\ synced' = synced \cup {p}
      /\ mishaps' = IF \E o \in Processes : pc[o] # "closed" THEN mishaps \cup {"overlap"} ELSE mishaps
      /\ UNCHANGED <<file, ops, saved, expected>>
  BY DEF Sessions!Open, Sessions!Goes
<1>2. file.lines \in Seq(SessionLines)
  BY DEF SessionTypes
<1>3. /\ new \in Shelves
      /\ \A n \in DOMAIN new : \E i \in DOMAIN file.lines :
           /\ file.lines[i].of.name = n /\ file.lines[i] \in Sessions!Read(file.lines)
           /\ new[n] = file.lines[i].of
  BY <1>2, SessionParseReads
<1> HIDE DEF new
<1>4. \A line \in Sessions!Read(file.lines) : Sessions!Validates(line.of)
  BY <1>1 DEF Sessions!ParseFails
<1>5. WellKept(new)
  BY <1>3, <1>4 DEF WellKept
<1>6. /\ \A q \in Processes \ {p} : memory'[q] = memory[q] /\ pc'[q] = pc[q]
      /\ memory'[p] = new /\ pc'[p] = "open"
  BY <1>1 DEF SessionTypes
<1>7. SessionTypes'
  BY <1>1, <1>3 DEF SessionTypes, SessionSteps
<1>8. CopiesAreKept'
  BY <1>5, <1>6 DEF CopiesAreKept
<1>9. ProfilesFromSaved'
  <2>1. \A n \in DOMAIN new : FromSaved(saved, new[n])
    BY <1>3 DEF ProfilesFromSaved
  <2> QED BY <1>1, <1>6, <2>1 DEF ProfilesFromSaved
<1>10. SyncedAreOpen' /\ OneProcessOpen'
  BY <1>1, <1>6 DEF SyncedAreOpen, OneProcessOpen, SessionTypes
<1>11. Sessions!SyncedIsOnDisk'
  BY <1>1, <1>6 DEF Sessions!SyncedIsOnDisk, Sessions!NoneHashed, SessionTypes, new
<1>12. Sessions!NothingLostWithoutMishap'
  BY <1>1, <1>6 DEF Sessions!NothingLostWithoutMishap, Sessions!NoneHashed
<1> QED BY <1>7, <1>8, <1>9, <1>10, <1>11, <1>12

LEMMA SessionCloseKeeps ==
  ASSUME SessionInv, NEW p \in Processes, Sessions!Close(p)
  PROVE SessionInv'
<1> USE DEF SessionInv
<1>1. /\ pc[p] # "closed" /\ pc' = [pc EXCEPT ![p] = "closed"]
      /\ memory' = [memory EXCEPT ![p] = Sessions!NoProfiles]
      /\ synced' = synced \ {p}
      /\ mishaps' = IF pc[p] = "write" THEN mishaps \cup {"cut"} ELSE mishaps
      /\ UNCHANGED <<file, ops, saved, expected>>
  BY DEF Sessions!Close, Sessions!Goes
<1>2. /\ \A q \in Processes \ {p} : memory'[q] = memory[q] /\ pc'[q] = pc[q]
      /\ memory'[p] = Sessions!NoProfiles /\ pc'[p] = "closed"
  BY <1>1 DEF SessionTypes
<1>3. SessionTypes'
  BY <1>1, EmptyShelf DEF SessionTypes, SessionSteps
<1>4. CopiesAreKept' /\ ProfilesFromSaved'
  BY <1>1, <1>2, EmptyShelf DEF CopiesAreKept, ProfilesFromSaved, WellKept
<1>5. SyncedAreOpen' /\ OneProcessOpen'
  BY <1>1, <1>2 DEF SyncedAreOpen, OneProcessOpen, SessionTypes
<1>6. Sessions!SyncedIsOnDisk'
  BY <1>1, <1>2 DEF Sessions!SyncedIsOnDisk, Sessions!NoneHashed, SessionTypes
<1>7. Sessions!NothingLostWithoutMishap'
  BY <1>1, <1>2 DEF Sessions!NothingLostWithoutMishap, Sessions!NoneHashed, OneProcessOpen
<1> QED BY <1>3, <1>4, <1>5, <1>6, <1>7

LEMMA SessionSaveKeeps ==
  ASSUME SessionInv, NEW p \in Processes, NEW q \in Profiles, Sessions!Save(p, q)
  PROVE SessionInv'
<1> USE DEF SessionInv
<1>1. /\ pc[p] = "open" /\ ops < MaxCalls /\ ops' = ops + 1 /\ Sessions!Validates(q)
      /\ memory' = [memory EXCEPT ![p] = Sessions!Put(@, q)]
      /\ pc' = [pc EXCEPT ![p] = "flush"] /\ synced' = synced \ {p}
      /\ saved' = saved \cup {q}
      /\ UNCHANGED <<file, expected, mishaps>>
  BY DEF Sessions!Save, Sessions!Call, Sessions!Goes
<1>2. memory[p] \in Shelves /\ WellKept(memory[p]) /\ q \in RawProfiles
  BY ProfilesAreRaw DEF SessionTypes, CopiesAreKept
<1> DEFINE m == memory[p]
<1> DEFINE new == Sessions!Put(m, q)
<1>3. /\ new \in Shelves /\ WellKept(new)
      /\ DOMAIN new = DOMAIN m \cup {q.name}
      /\ \A n \in DOMAIN m \cup {q.name} : new[n] = IF n = q.name THEN q ELSE m[n]
  BY <1>1, <1>2, ShelfPut
<1> HIDE DEF new
<1>4. /\ \A o \in Processes \ {p} : memory'[o] = memory[o] /\ pc'[o] = pc[o]
      /\ memory'[p] = new /\ pc'[p] = "flush"
  BY <1>1 DEF SessionTypes, new
<1>5. SessionTypes'
  <2>1. ops' \in 0..MaxCalls
    BY <1>1, StoresAssumption DEF SessionTypes
  <2> QED BY <1>1, <1>3, <2>1 DEF SessionTypes, SessionSteps, new
<1>6. CopiesAreKept'
  BY <1>3, <1>4 DEF CopiesAreKept
<1>7. ProfilesFromSaved'
  <2>1. \A g : FromSaved(saved, g) => FromSaved(saved', g)
    BY <1>1, FromSavedMore
  <2>2. FromSaved(saved', q)
    <3>1. saved' \in SUBSET RawProfiles /\ q \in saved'
      BY <1>1, ProfilesAreRaw DEF SessionTypes
    <3> QED BY <3>1, FromSavedItself
  <2>3. \A n \in DOMAIN new : FromSaved(saved', new[n])
    BY <1>3, <2>1, <2>2 DEF ProfilesFromSaved
  <2> QED BY <1>1, <1>4, <2>1, <2>3 DEF ProfilesFromSaved
<1>8. SyncedAreOpen' /\ OneProcessOpen'
  BY <1>1, <1>4 DEF SyncedAreOpen, OneProcessOpen, SessionTypes
<1>9. Sessions!SyncedIsOnDisk'
  BY <1>1, <1>4 DEF Sessions!SyncedIsOnDisk, Sessions!NoneHashed, SessionTypes
<1>10. Sessions!NothingLostWithoutMishap'
  BY <1>1, <1>4 DEF Sessions!NothingLostWithoutMishap, Sessions!NoneHashed
<1> QED BY <1>5, <1>6, <1>7, <1>8, <1>9, <1>10

LEMMA SessionForgetKeeps ==
  ASSUME SessionInv, NEW p \in Processes, NEW name, Sessions!Forget(p, name)
  PROVE SessionInv'
<1> USE DEF SessionInv
<1>1. /\ pc[p] = "open" /\ ops < MaxCalls /\ ops' = ops + 1
      /\ memory' = [memory EXCEPT ![p] = Sessions!Drop(@, name)]
      /\ pc' = [pc EXCEPT ![p] = "flush"] /\ synced' = synced \ {p}
      /\ UNCHANGED <<file, saved, expected, mishaps>>
  BY DEF Sessions!Forget, Sessions!Call, Sessions!Goes
<1>2. memory[p] \in Shelves /\ WellKept(memory[p])
  BY DEF SessionTypes, CopiesAreKept
<1> DEFINE m == memory[p]
<1> DEFINE new == Sessions!Drop(m, name)
<1>3. /\ new \in Shelves /\ WellKept(new)
      /\ DOMAIN new = DOMAIN m \ {name}
      /\ \A n \in DOMAIN m \ {name} : new[n] = m[n]
  BY <1>2, ShelfDrop
<1> HIDE DEF new
<1>4. /\ \A o \in Processes \ {p} : memory'[o] = memory[o] /\ pc'[o] = pc[o]
      /\ memory'[p] = new /\ pc'[p] = "flush"
  BY <1>1 DEF SessionTypes, new
<1>5. SessionTypes'
  <2>1. ops' \in 0..MaxCalls
    BY <1>1, StoresAssumption DEF SessionTypes
  <2> QED BY <1>1, <1>3, <2>1 DEF SessionTypes, SessionSteps, new
<1>6. CopiesAreKept'
  BY <1>3, <1>4 DEF CopiesAreKept
<1>7. ProfilesFromSaved'
  BY <1>1, <1>3, <1>4 DEF ProfilesFromSaved
<1>8. SyncedAreOpen' /\ OneProcessOpen'
  BY <1>1, <1>4 DEF SyncedAreOpen, OneProcessOpen, SessionTypes
<1>9. Sessions!SyncedIsOnDisk'
  BY <1>1, <1>4 DEF Sessions!SyncedIsOnDisk, Sessions!NoneHashed, SessionTypes
<1>10. Sessions!NothingLostWithoutMishap'
  BY <1>1, <1>4 DEF Sessions!NothingLostWithoutMishap, Sessions!NoneHashed
<1> QED BY <1>5, <1>6, <1>7, <1>8, <1>9, <1>10

\* Calls that change nothing but their number.
LEMMA SessionIdleCallKeeps ==
  ASSUME SessionInv, NEW p \in Processes, Sessions!Call(p),
         UNCHANGED <<pc, memory, synced, saved, expected>>
  PROVE SessionInv'
<1> USE DEF SessionInv
<1>1. ops' \in 0..MaxCalls /\ UNCHANGED <<file, mishaps>>
  BY StoresAssumption DEF Sessions!Call, SessionTypes
<1>2. SessionTypes' /\ CopiesAreKept' /\ ProfilesFromSaved'
  BY <1>1 DEF SessionTypes, CopiesAreKept, ProfilesFromSaved
<1>3. SyncedAreOpen' /\ OneProcessOpen'
  BY <1>1 DEF SyncedAreOpen, OneProcessOpen
<1>4. Sessions!SyncedIsOnDisk' /\ Sessions!NothingLostWithoutMishap'
  BY <1>1 DEF Sessions!SyncedIsOnDisk, Sessions!NothingLostWithoutMishap, Sessions!NoneHashed
<1> QED BY <1>2, <1>3, <1>4

LEMMA SessionFlushFailsKeeps ==
  ASSUME SessionInv, NEW p \in Processes, Sessions!FlushFails(p)
  PROVE SessionInv'
<1> USE DEF SessionInv
<1>1. /\ pc[p] = "flush" /\ pc' = [pc EXCEPT ![p] = "open"]
      /\ UNCHANGED <<file, memory, ops, synced, saved, expected, mishaps>>
  BY DEF Sessions!FlushFails, Sessions!Goes, Sessions!ghosts
<1>2. (\A q \in Processes \ {p} : pc'[q] = pc[q]) /\ pc'[p] = "open"
  BY <1>1 DEF SessionTypes
<1>3. SessionTypes' /\ CopiesAreKept' /\ ProfilesFromSaved'
  BY <1>1 DEF SessionTypes, SessionSteps, CopiesAreKept, ProfilesFromSaved
<1>4. SyncedAreOpen' /\ OneProcessOpen'
  BY <1>1, <1>2 DEF SyncedAreOpen, OneProcessOpen, SessionTypes
<1>5. Sessions!SyncedIsOnDisk'
  BY <1>1, <1>2 DEF Sessions!SyncedIsOnDisk, Sessions!NoneHashed, SyncedAreOpen, SessionTypes
<1>6. Sessions!NothingLostWithoutMishap'
  BY <1>1, <1>2 DEF Sessions!NothingLostWithoutMishap, Sessions!NoneHashed
<1> QED BY <1>3, <1>4, <1>5, <1>6

LEMMA SessionTruncateKeeps ==
  ASSUME SessionInv, NEW p \in Processes, Sessions!Truncate(p)
  PROVE SessionInv'
<1> USE DEF SessionInv
<1>1. /\ pc[p] = "flush" /\ pc' = [pc EXCEPT ![p] = "write"]
      /\ file' = [there |-> TRUE, lines |-> <<>>] /\ synced' = {}
      /\ UNCHANGED <<memory, ops, saved, expected, mishaps>>
  BY DEF Sessions!Truncate, Sessions!Goes
<1>2. (\A q \in Processes \ {p} : pc'[q] = pc[q]) /\ pc'[p] = "write"
  BY <1>1 DEF SessionTypes
<1>3. SessionTypes' /\ CopiesAreKept' /\ ProfilesFromSaved'
  BY <1>1 DEF SessionTypes, SessionSteps, CopiesAreKept, ProfilesFromSaved
<1>4. SyncedAreOpen' /\ OneProcessOpen'
  BY <1>1, <1>2 DEF SyncedAreOpen, OneProcessOpen, SessionTypes
<1>5. Sessions!SyncedIsOnDisk' /\ Sessions!NothingLostWithoutMishap'
  BY <1>1, <1>2 DEF Sessions!SyncedIsOnDisk, Sessions!NothingLostWithoutMishap
<1> QED BY <1>3, <1>4, <1>5

\* No profile that was saved has a name that is read as a comment, so none in
\* memory has.
LEMMA NoNameHashed ==
  ASSUME SessionInv, Sessions!NoneHashed, NEW p \in Processes, NEW n \in DOMAIN memory[p]
  PROVE n \notin HashedNames
<1>1. PICK g \in saved : memory[p][n] = [g EXCEPT !.cred = memory[p][n].cred]
  BY DEF SessionInv, ProfilesFromSaved, FromSaved
<1>2. g \in RawProfiles
  BY ProfilesAreRaw DEF SessionInv, SessionTypes
<1>3. memory[p][n].name = g.name
  BY <1>1, <1>2 DEF RawProfiles
<1>4. memory[p][n].name = n
  BY DEF SessionInv, CopiesAreKept, WellKept
<1> QED BY <1>3, <1>4 DEF Sessions!NoneHashed

LEMMA SessionWriteKeeps ==
  ASSUME SessionInv, NEW p \in Processes, Sessions!Write(p)
  PROVE SessionInv'
<1> USE DEF SessionInv
<1> DEFINE new == Sessions!Render(memory[p])
<1>1. PICK tail \in IF file.lines = <<>> THEN {<<>>} ELSE Sessions!Tails(file.lines, new) :
        file' = [file EXCEPT !.lines = new \o tail] /\ synced' = IF tail = <<>> THEN {p} ELSE {}
  BY DEF Sessions!Write
<1>2. /\ pc[p] = "write" /\ pc' = [pc EXCEPT ![p] = "open"] /\ expected' = memory[p]
      /\ UNCHANGED <<memory, ops, saved, mishaps>>
  BY DEF Sessions!Write, Sessions!Goes
<1>3. file.lines \in Seq(SessionLines) /\ memory[p] \in Shelves /\ WellKept(memory[p])
  BY DEF SessionTypes, CopiesAreKept
<1>4. /\ new \in Seq(SessionLines)
      /\ \A i \in DOMAIN new : /\ new[i].of.name \in DOMAIN memory[p]
                               /\ new[i].of = memory[p][new[i].of.name]
  BY <1>3, SessionRenderLines
<1>5. Sessions!NoneHashed => ~Sessions!ParseFails(new) /\ Sessions!Parse(new) = memory[p]
  BY <1>3, NoNameHashed, SessionRoundTrip
<1> HIDE DEF new
<1>6. /\ tail \in Seq(SessionLines)
      /\ \A i \in DOMAIN tail : \E j \in DOMAIN file.lines : tail[i].of = file.lines[j].of
      /\ file.lines = <<>> => tail = <<>>
  <2>1. CASE file.lines = <<>>
    BY <1>1, <2>1
  <2>2. CASE file.lines # <<>>
    <3> DEFINE old == file.lines
    <3>1. old \in Seq(SessionLines) /\ tail \in Sessions!Tails(old, new)
      BY <1>1, <1>3, <2>2
    <3> HIDE DEF old
    <3>2. /\ tail \in Seq(SessionLines)
          /\ \A i \in DOMAIN tail : \E j \in DOMAIN old : tail[i].of = old[j].of
      BY ONLY <3>1, SessionTails
    <3> QED BY <2>2, <3>2 DEF old
  <2> QED BY <2>1, <2>2
<1>7. file'.lines = new \o tail /\ file'.there = file.there
  BY <1>1 DEF SessionTypes
<1>8. /\ \A q \in Processes \ {p} : pc'[q] = pc[q]
      /\ pc'[p] = "open"
  BY <1>2 DEF SessionTypes
<1>9. SessionTypes'
  <2>1. new \o tail \in Seq(SessionLines)
    BY <1>4, <1>6, ConcatProperties
  <2>2. file' \in [there : BOOLEAN, lines : Seq(SessionLines)]
    BY <1>1, <2>1 DEF SessionTypes
  <2> QED BY <1>1, <1>2, <2>2 DEF SessionTypes, SessionSteps
<1>10. CopiesAreKept'
  BY <1>2 DEF CopiesAreKept
<1>11. ProfilesFromSaved'
  <2>1. \A i \in DOMAIN new : FromSaved(saved, new[i].of)
    BY <1>4 DEF ProfilesFromSaved
  <2>2. \A i \in DOMAIN tail : FromSaved(saved, tail[i].of)
    BY <1>6 DEF ProfilesFromSaved
  <2>3. ASSUME NEW i \in DOMAIN (new \o tail)
        PROVE FromSaved(saved, (new \o tail)[i].of)
    <3>1. Len(new) \in Nat /\ Len(tail) \in Nat /\ DOMAIN new = 1..Len(new) /\ DOMAIN tail = 1..Len(tail)
      BY <1>4, <1>6
    <3>2. i \in 1..(Len(new) + Len(tail))
          /\ (new \o tail)[i] = IF i <= Len(new) THEN new[i] ELSE tail[i - Len(new)]
      BY <1>4, <1>6
    <3>3. CASE i <= Len(new)
      BY <3>1, <3>2, <3>3, <2>1
    <3>4. CASE ~(i <= Len(new))
      <4>1. i - Len(new) \in DOMAIN tail
        BY <3>1, <3>2, <3>4
      <4> QED BY <3>2, <3>4, <4>1, <2>2
    <3> QED BY <3>3, <3>4
  <2> QED BY <1>2, <1>7, <2>3 DEF ProfilesFromSaved
<1>12. SyncedAreOpen' /\ OneProcessOpen'
  BY <1>1, <1>2, <1>8 DEF SyncedAreOpen, OneProcessOpen
<1>13. tail = <<>> => file'.lines = new
  BY <1>4, <1>7
<1>14. Sessions!SyncedIsOnDisk'
  BY <1>1, <1>2, <1>5, <1>13 DEF Sessions!SyncedIsOnDisk, Sessions!NoneHashed
<1>15. Sessions!NothingLostWithoutMishap'
  BY <1>2, <1>5, <1>6, <1>13 DEF Sessions!NothingLostWithoutMishap, Sessions!NoneHashed, OneProcessOpen
<1> QED BY <1>9, <1>10, <1>11, <1>12, <1>14, <1>15

LEMMA SessionWriteBreaksKeeps ==
  ASSUME SessionInv, NEW p \in Processes, Sessions!WriteBreaks(p)
  PROVE SessionInv'
<1> USE DEF SessionInv
<1> DEFINE new == Sessions!Render(memory[p])
<1>1. PICK k \in 1..Len(new) : \E rest \in Sessions!Rests(new[k]) :
        file' = [file EXCEPT !.lines = SubSeq(new, 1, k - 1) \o rest]
  BY DEF Sessions!WriteBreaks
<1>2. PICK rest \in Sessions!Rests(new[k]) : file' = [file EXCEPT !.lines = SubSeq(new, 1, k - 1) \o rest]
  BY <1>1
<1>3. /\ pc[p] = "write" /\ pc' = [pc EXCEPT ![p] = "open"]
      /\ mishaps' = mishaps \cup {"cut"} /\ synced' = {}
      /\ UNCHANGED <<memory, ops, saved, expected>>
  BY DEF Sessions!WriteBreaks, Sessions!Goes
<1>4. memory[p] \in Shelves /\ WellKept(memory[p])
  BY DEF SessionTypes, CopiesAreKept
<1>5. /\ new \in Seq(SessionLines)
      /\ \A i \in DOMAIN new : /\ new[i].of.name \in DOMAIN memory[p]
                               /\ new[i].of = memory[p][new[i].of.name]
  BY <1>4, SessionRenderLines
<1> HIDE DEF new
<1>6. \A i \in DOMAIN new : FromSaved(saved, new[i].of)
  BY <1>5 DEF ProfilesFromSaved
<1>7. /\ new[k] \in SessionLines /\ FromSaved(saved, new[k].of)
      /\ Len(new) \in Nat /\ DOMAIN new = 1..Len(new)
  BY <1>5, <1>6
<1>8. rest \in Seq(SessionLines) /\ \A i \in DOMAIN rest : FromSaved(saved, rest[i].of)
  <2>1. saved \in SUBSET RawProfiles
    BY ProfilesAreRaw DEF SessionTypes
  <2> QED BY <1>7, <2>1, SessionRests
<1> DEFINE front == SubSeq(new, 1, k - 1)
<1>9. front \in Seq(SessionLines) /\ Len(front) = k - 1 /\ \A i \in 1..(k - 1) : front[i] = new[i]
  BY <1>5, <1>7, SubSeqProperties
<1>10. \A i \in DOMAIN front : FromSaved(saved, front[i].of)
  BY <1>6, <1>7, <1>9
<1> HIDE DEF front
<1>11. file' = [file EXCEPT !.lines = front \o rest]
  BY <1>2 DEF front
<1>12. SessionTypes'
  <2>1. front \o rest \in Seq(SessionLines)
    BY <1>8, <1>9, ConcatProperties
  <2>2. file' \in [there : BOOLEAN, lines : Seq(SessionLines)]
    BY <1>11, <2>1 DEF SessionTypes
  <2> QED BY <1>3, <2>2 DEF SessionTypes, SessionSteps
<1>13. /\ \A q \in Processes \ {p} : pc'[q] = pc[q]
       /\ pc'[p] = "open"
  BY <1>3 DEF SessionTypes
<1>14. CopiesAreKept'
  BY <1>3 DEF CopiesAreKept
<1>15. ProfilesFromSaved'
  <2>1. ASSUME NEW i \in DOMAIN (front \o rest)
        PROVE FromSaved(saved, (front \o rest)[i].of)
    <3>1. Len(front) \in Nat /\ Len(rest) \in Nat /\ DOMAIN front = 1..Len(front) /\ DOMAIN rest = 1..Len(rest)
      BY <1>8, <1>9
    <3>2. i \in 1..(Len(front) + Len(rest))
          /\ (front \o rest)[i] = IF i <= Len(front) THEN front[i] ELSE rest[i - Len(front)]
      BY <1>8, <1>9
    <3>3. CASE i <= Len(front)
      BY <3>1, <3>2, <3>3, <1>10
    <3>4. CASE ~(i <= Len(front))
      <4>1. i - Len(front) \in DOMAIN rest
        BY <3>1, <3>2, <3>4
      <4> QED BY <3>2, <3>4, <4>1, <1>8
    <3> QED BY <3>3, <3>4
  <2>2. file'.lines = front \o rest
    BY <1>11 DEF SessionTypes
  <2> QED BY <1>3, <2>1, <2>2 DEF ProfilesFromSaved
<1>16. SyncedAreOpen' /\ OneProcessOpen'
  BY <1>3, <1>13 DEF SyncedAreOpen, OneProcessOpen
<1>17. Sessions!SyncedIsOnDisk' /\ Sessions!NothingLostWithoutMishap'
  BY <1>3 DEF Sessions!SyncedIsOnDisk, Sessions!NothingLostWithoutMishap
<1> QED BY <1>12, <1>14, <1>15, <1>16, <1>17

\* Every step of the session store keeps the invariant.
LEMMA SessionNextKeeps == SessionInv /\ Sessions!Next => SessionInv'
<1> SUFFICES ASSUME SessionInv, Sessions!Next PROVE SessionInv'
  OBVIOUS
<1>1. PICK p \in Processes :
        \/ Sessions!Open(p) \/ Sessions!Close(p) \/ Sessions!FlushFails(p)
        \/ Sessions!Truncate(p) \/ Sessions!Write(p) \/ Sessions!WriteBreaks(p)
        \/ \E q \in Profiles : \/ Sessions!Save(p, q) \/ Sessions!SaveInvalid(p, q)
                               \/ Sessions!Forget(p, q.name) \/ Sessions!ForgetMissing(p, q.name)
  BY Zenon DEF Sessions!Next
<1>2. ASSUME NEW q \in Profiles, Sessions!SaveInvalid(p, q) \/ Sessions!ForgetMissing(p, q.name)
      PROVE SessionInv'
  BY <1>2, SessionIdleCallKeeps DEF Sessions!SaveInvalid, Sessions!ForgetMissing
<1> QED
  BY <1>1, <1>2, SessionOpenKeeps, SessionCloseKeeps, SessionFlushFailsKeeps, SessionTruncateKeeps,
     SessionWriteKeeps, SessionWriteBreaksKeeps, SessionSaveKeeps, SessionForgetKeeps

LEMMA SessionStutterKeeps == SessionInv /\ UNCHANGED sessionVars => SessionInv'
<1> SUFFICES ASSUME SessionInv, UNCHANGED sessionVars PROVE SessionInv'
  OBVIOUS
<1> USE DEF sessionVars, SessionInv
<1>1. SessionTypes' /\ CopiesAreKept' /\ ProfilesFromSaved'
  BY DEF SessionTypes, CopiesAreKept, ProfilesFromSaved
<1>2. SyncedAreOpen' /\ OneProcessOpen'
  BY DEF SyncedAreOpen, OneProcessOpen
<1>3. Sessions!SyncedIsOnDisk' /\ Sessions!NothingLostWithoutMishap'
  BY DEF Sessions!SyncedIsOnDisk, Sessions!NothingLostWithoutMishap, Sessions!NoneHashed
<1> QED BY <1>1, <1>2, <1>3

\* Every step of the stores is one of the session store or leaves it alone.
LEMMA StoresStepOfSessions ==
  [UseSessions \/ UseHosts \/ UseSites \/ UseLines]_allVars => Sessions!Next \/ UNCHANGED sessionVars
  BY DEF UseSessions, UseHosts, UseSites, UseLines, allVars

LEMMA SessionInvHolds == StoresSpec => []SessionInv
<1>1. StoresInit => SessionInv
  BY SessionInitRight DEF StoresInit
<1>2. SessionInv /\ [UseSessions \/ UseHosts \/ UseSites \/ UseLines]_allVars => SessionInv'
  BY StoresStepOfSessions, SessionNextKeeps, SessionStutterKeeps
<1> QED BY <1>1, <1>2, PTL DEF StoresSpec

LEMMA SessionInvKeeps == SessionInv => SessionsAreKept
<1> SUFFICES ASSUME SessionInv PROVE SessionsAreKept
  OBVIOUS
<1> USE DEF SessionInv
<1>1. Sessions!TypeOK
  <2>1. ASSUME NEW p \in Processes, NEW n \in DOMAIN memory[p]
        PROVE memory[p][n].name = n /\ n \notin BlankNames
    BY DEF CopiesAreKept, WellKept, Sessions!Validates
  <2> QED BY <2>1 DEF Sessions!TypeOK, SessionTypes, SessionSteps
<1>2. Sessions!NothingInvented
  BY DEF Sessions!NothingInvented, Sessions!Read, ProfilesFromSaved, FromSaved
<1> QED BY <1>1, <1>2 DEF SessionsAreKept

\* What a process of the session store has in memory after a call that went
\* through is what opening the file again gives; without an overlap or a write
\* that broke off that is what the calls add up to; and nothing is read that
\* was not saved: for any number of processes, profiles and calls.
THEOREM SessionsAreKeptAlways == StoresSpec => []SessionsAreKept
  BY SessionInvHolds, SessionInvKeeps, PTL

-----------------------------------------------------------------------------
(* The sites of the GUI                                                    *)

SiteLines == [name : SiteNames, data : SiteData]
Rows == SiteLines \cup {Sites!Junk}
SiteBooks == UNION {[D -> SiteData] : D \in SUBSET SiteNames}

Members(lines) == {lines[i] : i \in DOMAIN lines}
But(S, n) == {l \in S : l.name # n}

\* The lines that a site store of names has, and those that the list shows of
\* a file of lines and a store.
SitesOf(f) == {Sites!Line(n, f[n]) : n \in DOMAIN f}
Visible(lines, older) ==
  Members(lines) \cup {l \in SitesOf(older) : l.name \notin Sites!Known(lines)}

\* No name stands on two lines, but that of a line that was cut.
NamedOnce(lines) ==
  \A i, j \in DOMAIN lines : lines[i].name = lines[j].name /\ lines[i] # Sites!Junk => i = j

LEMMA SiteBookIsFunction ==
  ASSUME NEW f \in SiteBooks
  PROVE f \in [DOMAIN f -> SiteData] /\ DOMAIN f \subseteq SiteNames
  BY DEF SiteBooks

\* Only the line that was cut is called "junk".
LEMMA JunkName ==
  ASSUME NEW l \in Rows
  PROVE l.name = "junk" <=> l = Sites!Junk
<1>1. "junk" \notin SiteNames
  BY StoresAssumption DEF SitesAssumption
<1> QED BY <1>1 DEF Rows, SiteLines, Sites!Junk

LEMMA KnownIsNames ==
  ASSUME NEW lines
  PROVE Sites!Known(lines) = {l.name : l \in Members(lines)}
  BY DEF Sites!Known, Members

\* What is left of a file without the line of a name.
LEMMA OthersLeft ==
  ASSUME NEW lines \in Seq(Rows), NEW n
  PROVE LET rest == Sites!Others(lines, n) IN
        /\ rest \in Seq(Rows)
        /\ Members(rest) = But(Members(lines), n)
        /\ NamedOnce(lines) => NamedOnce(rest)
<1> DEFINE S == {l \in Sites!ToSet(lines) : l.name # n}
<1> DEFINE rest == Select(lines, S)
<1>1. Sites!Others(lines, n) = rest
  BY DEF Sites!Others, Sites!Select, Select
<1>2. S = But(Members(lines), n)
  BY DEF But, Members, Sites!ToSet
<1> HIDE DEF S
<1>3. rest \in Seq(Rows \cap S)
  BY SelectPicks
<1>4. PICK at : PickedAt(at, rest, lines, S)
  BY SelectPicks
<1> HIDE DEF rest
<1>5. Len(rest) \in Nat /\ DOMAIN rest = 1..Len(rest) /\ DOMAIN lines = 1..Len(lines)
  BY <1>3
<1>6. \A i \in DOMAIN rest : rest[i] \in Rows /\ rest[i] \in S
  BY <1>3
<1>7. rest \in Seq(Rows)
  BY <1>3
<1>8. \A k \in DOMAIN lines : lines[k] \in S => \E j \in DOMAIN rest : rest[j] = lines[k]
  BY <1>4, <1>5 DEF PickedAt
<1>9. Members(rest) = But(Members(lines), n)
  BY <1>2, <1>6, <1>8 DEF Members, But
<1>10. ASSUME NamedOnce(lines) PROVE NamedOnce(rest)
  <2> SUFFICES ASSUME NEW i \in DOMAIN rest, NEW j \in DOMAIN rest,
                      rest[i].name = rest[j].name, rest[i] # Sites!Junk
               PROVE i = j
    BY DEF NamedOnce
  <2>1. at[i] \in DOMAIN lines /\ at[j] \in DOMAIN lines /\ rest[i] = lines[at[i]] /\ rest[j] = lines[at[j]]
    BY <1>4, <1>5 DEF PickedAt
  <2>2. at[i] = at[j]
    BY <1>10, <2>1 DEF NamedOnce
  <2>3. \A h, k \in 1..Len(rest) : h < k => at[h] < at[k]
    BY <1>4 DEF PickedAt
  <2>4. at[i] \in Nat
    BY <2>1, <1>5
  <2> QED BY <1>5, <2>2, <2>3, <2>4
<1> QED BY <1>1, <1>7, <1>9, <1>10

LEMMA Appended ==
  ASSUME NEW lines \in Seq(Rows), NEW x \in Rows
  PROVE /\ Append(lines, x) \in Seq(Rows)
        /\ Members(Append(lines, x)) = Members(lines) \cup {x}
        /\ NamedOnce(lines) /\ (x = Sites!Junk \/ \A l \in Members(lines) : l.name # x.name)
             => NamedOnce(Append(lines, x))
<1> DEFINE new == Append(lines, x)
<1>1. /\ new \in Seq(Rows) /\ Len(lines) \in Nat /\ DOMAIN lines = 1..Len(lines)
      /\ DOMAIN new = 1..(Len(lines) + 1)
      /\ new[Len(lines) + 1] = x /\ \A i \in 1..Len(lines) : new[i] = lines[i]
  BY AppendProperties
<1> HIDE DEF new
<1>2. Members(new) = Members(lines) \cup {x}
  <2>1. ASSUME NEW i \in DOMAIN new PROVE new[i] \in Members(lines) \cup {x}
    <3>1. i = Len(lines) + 1 \/ i \in DOMAIN lines
      BY <1>1
    <3> QED BY <1>1, <3>1 DEF Members
  <2>2. Len(lines) + 1 \in DOMAIN new /\ \A i \in DOMAIN lines : i \in DOMAIN new /\ new[i] = lines[i]
    BY <1>1
  <2>3. ASSUME NEW l \in Members(lines) PROVE l \in Members(new)
    BY <2>2 DEF Members
  <2> QED BY <1>1, <2>1, <2>2, <2>3 DEF Members
<1>3. ASSUME NamedOnce(lines), x = Sites!Junk \/ \A l \in Members(lines) : l.name # x.name
      PROVE NamedOnce(new)
  <2> SUFFICES ASSUME NEW i \in DOMAIN new, NEW j \in DOMAIN new,
                      new[i].name = new[j].name, new[i] # Sites!Junk
               PROVE i = j
    BY DEF NamedOnce
  <2>1. \A k \in DOMAIN new : k # Len(lines) + 1 =>
                             k \in DOMAIN lines /\ new[k] = lines[k] /\ lines[k] \in Members(lines)
    BY <1>1 DEF Members
  <2>2. \A k \in DOMAIN new : new[k] \in Rows
    BY <1>1
  <2>3. new[j] # Sites!Junk
    BY <2>2, JunkName
  <2> QED BY <1>1, <1>3, <2>1, <2>3 DEF NamedOnce
<1> QED BY <1>1, <1>2, <1>3 DEF new

\* What a full disk, or a crash, leaves of the lines.
LEMMA CutRows ==
  ASSUME NEW lines \in Seq(Rows), NamedOnce(lines), NEW c \in Sites!Cut(lines)
  PROVE c \in Seq(Rows) /\ Members(c) \subseteq Members(lines) \cup {Sites!Junk} /\ NamedOnce(c)
<1>0. Len(lines) \in Nat /\ DOMAIN lines = 1..Len(lines)
  OBVIOUS
<1> DEFINE front(n) == SubSeq(lines, 1, n)
<1>1. ASSUME NEW n \in 0..Len(lines)
      PROVE front(n) \in Seq(Rows) /\ Members(front(n)) \subseteq Members(lines) /\ NamedOnce(front(n))
  <2>1. front(n) \in Seq(Rows) /\ DOMAIN front(n) = 1..n /\ \A i \in 1..n : front(n)[i] = lines[i]
    BY <1>0, SubSeqProperties
  <2> HIDE DEF front
  <2>2. \A i \in 1..n : i \in DOMAIN lines
    BY <1>0
  <2> QED BY <2>1, <2>2 DEF Members, NamedOnce
<1>2. ASSUME NEW n \in 0..Len(lines), c = front(n)
      PROVE c \in Seq(Rows) /\ Members(c) \subseteq Members(lines) \cup {Sites!Junk} /\ NamedOnce(c)
  BY <1>1, <1>2
<1>3. ASSUME NEW n \in 0..Len(lines), c = Append(front(n), Sites!Junk)
      PROVE c \in Seq(Rows) /\ Members(c) \subseteq Members(lines) \cup {Sites!Junk} /\ NamedOnce(c)
  <2> DEFINE f == front(n)
  <2>1. f \in Seq(Rows) /\ Members(f) \subseteq Members(lines) /\ NamedOnce(f) /\ Sites!Junk \in Rows
    BY <1>1 DEF Rows
  <2> HIDE DEF f
  <2>2. /\ Append(f, Sites!Junk) \in Seq(Rows)
        /\ Members(Append(f, Sites!Junk)) = Members(f) \cup {Sites!Junk}
        /\ NamedOnce(Append(f, Sites!Junk))
    BY <2>1, Appended
  <2>3. c = Append(f, Sites!Junk)
    BY <1>3 DEF f
  <2> QED BY <2>1, <2>2, <2>3
<1> HIDE DEF front
<1>4. \/ \E n \in 0..Len(lines) : c = front(n)
      \/ \E n \in 0..(Len(lines) - 1) : c = Append(front(n), Sites!Junk)
  BY DEF Sites!Cut, front
<1>5. \A n \in 0..(Len(lines) - 1) : n \in 0..Len(lines)
  BY <1>0
<1> QED BY <1>2, <1>3, <1>4, <1>5

\* How the list changes with a file and with the older store.
LEMMA VisibleWithout ==
  ASSUME NEW lines, NEW rest, NEW n, NEW older \in SiteBooks, Members(rest) = But(Members(lines), n)
  PROVE Visible(rest, Sites!Without(older, n)) = But(Visible(lines, older), n)
<1> DEFINE left == Sites!Without(older, n)
<1>1. DOMAIN left = DOMAIN older \ {n} /\ \A m \in DOMAIN left : left[m] = older[m]
  BY DEF Sites!Without
<1>2. \A m \in DOMAIN older : Sites!Line(m, older[m]).name = m
  BY DEF Sites!Line
<1> HIDE DEF left
<1>3. SitesOf(left) = But(SitesOf(older), n)
  BY <1>1, <1>2 DEF SitesOf, But
<1>4. Sites!Known(rest) = {m \in Sites!Known(lines) : m # n}
  BY KnownIsNames DEF But
<1>5. {l \in SitesOf(left) : l.name \notin Sites!Known(rest)}
        = But({l \in SitesOf(older) : l.name \notin Sites!Known(lines)}, n)
  BY <1>3, <1>4 DEF But
<1> QED BY <1>5 DEF Visible, But, left

LEMMA VisibleSaved ==
  ASSUME NEW lines, NEW new, NEW n, NEW d, NEW older \in SiteBooks,
         Members(new) = But(Members(lines), n) \cup {Sites!Line(n, d)}
  PROVE Visible(new, older) = But(Visible(lines, older), n) \cup {Sites!Line(n, d)}
<1>1. Sites!Line(n, d).name = n
  BY DEF Sites!Line
<1>2. \A m : m # n => (m \in Sites!Known(new) <=> m \in Sites!Known(lines))
  BY <1>1, KnownIsNames DEF But
<1>3. n \in Sites!Known(new)
  BY <1>1, KnownIsNames
<1>4. {l \in SitesOf(older) : l.name \notin Sites!Known(new)}
        = But({l \in SitesOf(older) : l.name \notin Sites!Known(lines)}, n)
  BY <1>2, <1>3 DEF But
<1> QED BY <1>4 DEF Visible, But

LEMMA SitesOfPut ==
  ASSUME NEW f \in SiteBooks, NEW n, NEW d
  PROVE SitesOf(Sites!Put(f, n, d)) = But(SitesOf(f), n) \cup {Sites!Line(n, d)}
<1> DEFINE g == Sites!Put(f, n, d)
<1>1. DOMAIN g = DOMAIN f \cup {n} /\ g[n] = d /\ \A m \in DOMAIN f \ {n} : g[m] = f[m]
  BY DEF Sites!Put
<1>2. \A m, e : Sites!Line(m, e).name = m
  BY DEF Sites!Line
<1> HIDE DEF g
<1>3. ASSUME NEW l \in SitesOf(g) PROVE l \in But(SitesOf(f), n) \cup {Sites!Line(n, d)}
  BY <1>1, <1>2 DEF SitesOf, But
<1>4. ASSUME NEW l \in But(SitesOf(f), n) \cup {Sites!Line(n, d)} PROVE l \in SitesOf(g)
  <2>1. CASE l = Sites!Line(n, d)
    BY <1>1, <2>1 DEF SitesOf
  <2>2. CASE l \in But(SitesOf(f), n)
    <3>1. PICK m \in DOMAIN f : l = Sites!Line(m, f[m])
      BY <2>2 DEF But, SitesOf
    <3>2. m # n
      BY <2>2, <3>1, <1>2 DEF But
    <3> QED BY <1>1, <3>1, <3>2 DEF SitesOf
  <2> QED BY <1>4, <2>1, <2>2
<1> QED BY <1>3, <1>4 DEF g

LEMMA SitesOfWithout ==
  ASSUME NEW f \in SiteBooks, NEW n
  PROVE SitesOf(Sites!Without(f, n)) = But(SitesOf(f), n)
<1>1. DOMAIN Sites!Without(f, n) = DOMAIN f \ {n} /\ \A m \in DOMAIN f \ {n} : Sites!Without(f, n)[m] = f[m]
  BY DEF Sites!Without
<1>2. \A m \in DOMAIN f : Sites!Line(m, f[m]).name = m
  BY DEF Sites!Line
<1> QED BY <1>1, <1>2 DEF SitesOf, But

LEMMA VisibleSession ==
  ASSUME NEW lines, NEW n, NEW d, NEW older \in SiteBooks, n \notin Sites!Known(lines)
  PROVE Visible(lines, Sites!Put(older, n, d)) = But(Visible(lines, older), n) \cup {Sites!Line(n, d)}
<1>1. Sites!Line(n, d).name = n
  BY DEF Sites!Line
<1>2. SitesOf(Sites!Put(older, n, d)) = But(SitesOf(older), n) \cup {Sites!Line(n, d)}
  BY SitesOfPut
<1>3. \A l \in Members(lines) : l.name # n
  BY KnownIsNames
<1> DEFINE A == SitesOf(older)
<1> DEFINE B == SitesOf(Sites!Put(older, n, d))
<1> HIDE DEF A, B
<1>4. Visible(lines, older) = Members(lines) \cup {l \in A : l.name \notin Sites!Known(lines)}
      /\ Visible(lines, Sites!Put(older, n, d)) = Members(lines) \cup {l \in B : l.name \notin Sites!Known(lines)}
  BY DEF Visible, A, B
<1>5. B = But(A, n) \cup {Sites!Line(n, d)}
  BY <1>2 DEF A, B
<1> QED BY <1>1, <1>3, <1>4, <1>5 DEF But

LEMMA BookPut ==
  ASSUME NEW f \in SiteBooks, NEW n \in SiteNames, NEW d \in SiteData
  PROVE Sites!Put(f, n, d) \in SiteBooks
<1> DEFINE D == DOMAIN f \cup {n}
<1> DEFINE g == [x \in D |-> IF x = n THEN d ELSE f[x]]
<1>1. D \in SUBSET SiteNames /\ \A x \in D : (IF x = n THEN d ELSE f[x]) \in SiteData
  BY SiteBookIsFunction
<1>2. g \in [D -> SiteData]
  <2> HIDE DEF D
  <2> QED BY <1>1
<1>3. Sites!Put(f, n, d) = g
  BY DEF Sites!Put
<1> HIDE DEF D, g
<1> QED BY <1>1, <1>2, <1>3 DEF SiteBooks

LEMMA BookWithout ==
  ASSUME NEW f \in SiteBooks, NEW n
  PROVE Sites!Without(f, n) \in SiteBooks
<1> DEFINE D == DOMAIN f \ {n}
<1> DEFINE g == [x \in D |-> f[x]]
<1>1. D \in SUBSET SiteNames /\ \A x \in D : f[x] \in SiteData
  BY SiteBookIsFunction
<1>2. g \in [D -> SiteData]
  <2> HIDE DEF D
  <2> QED BY <1>1
<1>3. Sites!Without(f, n) = g
  BY DEF Sites!Without
<1> HIDE DEF D, g
<1> QED BY <1>1, <1>2, <1>3 DEF SiteBooks

-----------------------------------------------------------------------------

SiteSteps == {"idle", "read", "truncate", "write", "older"}

SiteTypes ==
  /\ full \in Seq(Rows) /\ buffer \in Seq(Rows)
  /\ legacy \in SiteBooks /\ sites \in SiteBooks
  /\ ever \subseteq SiteLines
  /\ step \in SiteSteps
  /\ result \in {"none", "true", "false", "crashed"} /\ dropped \in BOOLEAN
  /\ call \in Sites!Calls \cup {Sites!NoCall}
  /\ step # "idle" => call \in Sites!Calls
  /\ step = "older" => call.op = "delete"

RowsWereSaved ==
  /\ Members(full) \cup Members(buffer) \subseteq ever \cup {Sites!Junk}
  /\ step # "idle" /\ call.op = "save" => Sites!Line(call.name, call.data) \in ever

NamesOnce == NamedOnce(full) /\ NamedOnce(buffer)

\* A save can only fail as long as the file is what it was, and a delete if
\* there was no full profile of the name or the file did not open.
FileUntouched == step \in {"read", "truncate"} => full = before
NoProfile == \A l \in Members(before) : l.name # call.name
DeleteSpares ==
  ~dropped /\ call.op = "delete" =>
    /\ step \in {"truncate", "write"} => NoProfile
    /\ step = "older" => NoProfile \/ full = before

\* When the call under way ends with these lines in the file, the list shows
\* the sites as the call wants them.
WillAgree(lines) ==
  /\ call.op = "save" =>
       Visible(lines, legacy) = SitesOf(Sites!Put(sites, call.name, call.data))
  /\ call.op = "delete" =>
       Visible(lines, Sites!Without(legacy, call.name)) = SitesOf(Sites!Without(sites, call.name))

StoresAgree ==
  ~mishap =>
    /\ step \in {"idle", "read", "truncate"} => Visible(full, legacy) = SitesOf(sites)
    /\ step \in {"truncate", "write"} => WillAgree(buffer)
    /\ step = "older" => WillAgree(full)

SiteInv ==
  /\ SiteTypes /\ RowsWereSaved /\ NamesOnce /\ FileUntouched /\ DeleteSpares /\ StoresAgree
  /\ Sites!FailedDeleteKeepsIt /\ Sites!FailedSaveChangesNothing

LEMMA CallFields ==
  ASSUME NEW c \in Sites!Calls
  PROVE /\ c.name \in SiteNames
        /\ c.op \in {"save", "delete"} /\ (c.op = "save" => c.data \in SiteData)
        /\ c.op # "none"
  BY DEF Sites!Calls

LEMMA EmptyRows ==
  /\ <<>> \in Seq(Rows) /\ Members(<<>>) = {} /\ NamedOnce(<<>>)
  /\ \A f : Visible(<<>>, f) = SitesOf(f)
<1>1. Members(<<>>) = {}
  BY DEF Members
<1>2. Sites!Known(<<>>) = {}
  BY <1>1, KnownIsNames
<1> QED BY <1>1, <1>2 DEF NamedOnce, Visible

LEMMA SiteInitRight == Sites!Init => SiteInv
<1> SUFFICES ASSUME Sites!Init PROVE SiteInv
  OBVIOUS
<1> USE DEF Sites!Init
<1>1. legacy \in SiteBooks /\ sites = legacy
  BY DEF SiteBooks
<1>2. ever \subseteq SiteLines
  BY <1>1, SiteBookIsFunction DEF Sites!Line, SiteLines
<1>3. SiteTypes
  BY <1>1, <1>2, EmptyRows DEF SiteTypes, SiteSteps
<1>4. RowsWereSaved /\ NamesOnce /\ FileUntouched
  BY EmptyRows DEF RowsWereSaved, NamesOnce, FileUntouched
<1>5. StoresAgree
  BY <1>1, EmptyRows DEF StoresAgree
<1>6. DeleteSpares /\ Sites!FailedDeleteKeepsIt /\ Sites!FailedSaveChangesNothing
  BY DEF DeleteSpares, Sites!FailedDeleteKeepsIt, Sites!FailedSaveChangesNothing, Sites!NoCall
<1> QED BY <1>3, <1>4, <1>5, <1>6 DEF SiteInv

LEMMA SiteBeginKeeps ==
  ASSUME SiteInv, NEW c \in Sites!Calls, Sites!Begin(c)
  PROVE SiteInv'
<1> USE DEF SiteInv
<1>1. /\ step = "idle" /\ call' = c /\ step' = "read" /\ dropped' = FALSE /\ result' = "none"
      /\ ever' = IF c.op = "save" THEN ever \cup {Sites!Line(c.name, c.data)} ELSE ever
      /\ before' = full
      /\ UNCHANGED <<full, legacy, buffer, mishap, sites>>
  BY DEF Sites!Begin, Sites!disk
<1>2. ever' \subseteq SiteLines
  BY <1>1, CallFields DEF SiteTypes, Sites!Line, SiteLines
<1>3. SiteTypes'
  BY <1>1, <1>2 DEF SiteTypes, SiteSteps
<1>4. RowsWereSaved'
  BY <1>1 DEF RowsWereSaved
<1>5. NamesOnce' /\ FileUntouched' /\ StoresAgree'
  BY <1>1 DEF NamesOnce, FileUntouched, StoresAgree
<1>6. DeleteSpares' /\ Sites!FailedDeleteKeepsIt' /\ Sites!FailedSaveChangesNothing'
  BY <1>1 DEF DeleteSpares, Sites!FailedDeleteKeepsIt, Sites!FailedSaveChangesNothing
<1> QED BY <1>3, <1>4, <1>5, <1>6

LEMMA SiteReadKeeps ==
  ASSUME SiteInv, Sites!Read
  PROVE SiteInv'
<1> USE DEF SiteInv
<1> DEFINE rest == Sites!Others(full, call.name)
<1> DEFINE site == Sites!Line(call.name, call.data)
<1>1. /\ step = "read" /\ step' = "truncate"
      /\ buffer' = IF call.op = "save" THEN Append(rest, site) ELSE rest
      /\ dropped' = (call.name \in Sites!Known(full))
      /\ UNCHANGED <<full, legacy, call, result, calls, mishap, before, sites, ever>>
  BY DEF Sites!Read, Sites!disk, Sites!history
<1>2. /\ call \in Sites!Calls /\ full \in Seq(Rows) /\ NamedOnce(full)
      /\ legacy \in SiteBooks /\ sites \in SiteBooks
  BY <1>1 DEF SiteTypes, NamesOnce
<1>3. /\ call.name \in SiteNames
      /\ call.op \in {"save", "delete"} /\ (call.op = "save" => call.data \in SiteData)
  BY <1>2, CallFields
<1>4. /\ rest \in Seq(Rows) /\ NamedOnce(rest)
      /\ Members(rest) = But(Members(full), call.name)
  BY <1>2, OthersLeft
<1> HIDE DEF rest
<1>5. /\ buffer' \in Seq(Rows) /\ NamedOnce(buffer')
      /\ call.op = "save" => site \in ever /\ Members(buffer') = But(Members(full), call.name) \cup {site}
      /\ call.op = "delete" => Members(buffer') = But(Members(full), call.name)
  <2>1. CASE call.op = "delete"
    BY <1>1, <1>4, <2>1
  <2>2. CASE call.op = "save"
    <3>1. site \in Rows /\ site.name = call.name /\ site \in ever
      BY <1>1, <1>3, <2>2 DEF Rows, SiteLines, Sites!Line, RowsWereSaved
    <3> HIDE DEF site
    <3>2. \A l \in Members(rest) : l.name # site.name
      BY <1>4, <3>1 DEF But
    <3>3. /\ Append(rest, site) \in Seq(Rows) /\ NamedOnce(Append(rest, site))
          /\ Members(Append(rest, site)) = Members(rest) \cup {site}
      BY <1>4, <3>1, <3>2, Appended
    <3> QED BY <1>1, <1>4, <2>2, <3>1, <3>3
  <2> QED BY <1>3, <2>1, <2>2
<1>6. WillAgree(buffer)' \/ mishap
  <2> SUFFICES ASSUME ~mishap PROVE WillAgree(buffer)'
    OBVIOUS
  <2>1. Visible(full, legacy) = SitesOf(sites)
    BY <1>1 DEF StoresAgree
  <2>2. ASSUME call.op = "save"
        PROVE Visible(buffer', legacy) = SitesOf(Sites!Put(sites, call.name, call.data))
    <3>1. Visible(buffer', legacy) = But(Visible(full, legacy), call.name) \cup {site}
      <4> DEFINE new == buffer'
      <4> DEFINE n == call.name
      <4> DEFINE d == call.data
      <4>1. legacy \in SiteBooks /\ Members(new) = But(Members(full), n) \cup {Sites!Line(n, d)}
        BY <1>2, <1>5, <2>2
      <4> HIDE DEF new, n, d
      <4>2. Visible(new, legacy) = But(Visible(full, legacy), n) \cup {Sites!Line(n, d)}
        BY ONLY <4>1, VisibleSaved
      <4> QED BY <4>2 DEF new, n, d
    <3>2. SitesOf(Sites!Put(sites, call.name, call.data)) = But(SitesOf(sites), call.name) \cup {site}
      BY <1>2, SitesOfPut
    <3> QED BY <2>1, <3>1, <3>2
  <2>3. ASSUME call.op = "delete"
        PROVE Visible(buffer', Sites!Without(legacy, call.name)) = SitesOf(Sites!Without(sites, call.name))
    <3>1. Visible(buffer', Sites!Without(legacy, call.name)) = But(Visible(full, legacy), call.name)
      BY <1>2, <1>5, <2>3, VisibleWithout
    <3>2. SitesOf(Sites!Without(sites, call.name)) = But(SitesOf(sites), call.name)
      BY <1>2, SitesOfWithout
    <3> QED BY <2>1, <3>1, <3>2
  <2> QED BY <1>1, <2>2, <2>3 DEF WillAgree
<1>7. SiteTypes'
  BY <1>1, <1>2, <1>5 DEF SiteTypes, SiteSteps
<1>8. RowsWereSaved'
  BY <1>1, <1>3, <1>5 DEF RowsWereSaved, But
<1>9. NamesOnce' /\ FileUntouched'
  BY <1>1, <1>5 DEF NamesOnce, FileUntouched
<1>10. StoresAgree'
  BY <1>1, <1>6 DEF StoresAgree
<1>11. DeleteSpares' /\ Sites!FailedDeleteKeepsIt' /\ Sites!FailedSaveChangesNothing'
  <2>1. ~dropped' => NoProfile'
    <3>1. full = before
      BY <1>1 DEF FileUntouched
    <3> QED BY <1>1, <3>1, KnownIsNames DEF NoProfile
  <2> QED BY <1>1, <2>1 DEF DeleteSpares, Sites!FailedDeleteKeepsIt, Sites!FailedSaveChangesNothing
<1> QED BY <1>7, <1>8, <1>9, <1>10, <1>11

LEMMA SiteReadFailsKeeps ==
  ASSUME SiteInv, Sites!ReadFails
  PROVE SiteInv'
<1> USE DEF SiteInv
<1> DEFINE site == Sites!Line(call.name, call.data)
<1>1. /\ step = "read" /\ mishap' = TRUE
      /\ IF call.op = "save" THEN buffer' = <<site>> /\ step' = "truncate"
                             ELSE buffer' = buffer /\ step' = "older"
      /\ UNCHANGED <<full, legacy, call, dropped, result, calls, before, sites, ever>>
  BY DEF Sites!ReadFails, Sites!disk
<1>2. /\ call.name \in SiteNames
      /\ call.op \in {"save", "delete"} /\ (call.op = "save" => call.data \in SiteData)
  BY <1>1, CallFields DEF SiteTypes
<1>3. call.op = "save" => site \in Rows /\ site \in ever
  BY <1>1, <1>2 DEF Rows, SiteLines, Sites!Line, RowsWereSaved
<1> HIDE DEF site
<1>4. /\ buffer' \in Seq(Rows) /\ NamedOnce(buffer') /\ Members(buffer') \subseteq ever \cup {Sites!Junk}
  <2>1. CASE call.op = "save"
    <3>1. buffer' = <<site>> /\ site \in Rows /\ site \in ever
      BY <1>1, <1>3, <2>1
    <3> QED BY <3>1 DEF NamedOnce, Members
  <2>2. CASE call.op # "save"
    BY <1>1, <2>2 DEF SiteTypes, NamesOnce, RowsWereSaved
  <2> QED BY <2>1, <2>2
<1>5. SiteTypes'
  BY <1>1, <1>2, <1>4 DEF SiteTypes, SiteSteps
<1>6. RowsWereSaved'
  BY <1>1, <1>4 DEF RowsWereSaved
<1>7. NamesOnce' /\ FileUntouched' /\ StoresAgree'
  BY <1>1, <1>4 DEF NamesOnce, FileUntouched, StoresAgree
<1>8. DeleteSpares' /\ Sites!FailedDeleteKeepsIt' /\ Sites!FailedSaveChangesNothing'
  BY <1>1
     DEF DeleteSpares, Sites!FailedDeleteKeepsIt, Sites!FailedSaveChangesNothing, NoProfile, FileUntouched
<1> QED BY <1>5, <1>6, <1>7, <1>8

LEMMA SiteTruncateKeeps ==
  ASSUME SiteInv, Sites!Truncate
  PROVE SiteInv'
<1> USE DEF SiteInv
<1>1. step = "truncate" /\ UNCHANGED <<legacy, call, dropped, calls, before, sites, ever>>
  BY DEF Sites!Truncate
<1>2. \/ full' = <<>> /\ step' = "write" /\ UNCHANGED <<result, buffer, mishap>>
      \/ /\ mishap' = TRUE /\ full' = full /\ call.op = "save"
         /\ result' = "false" /\ step' = "idle" /\ buffer' = <<>>
      \/ mishap' = TRUE /\ full' = full /\ call.op = "delete" /\ step' = "older" /\ UNCHANGED <<result, buffer>>
  BY DEF Sites!Truncate, Sites!Return
<1>3. SiteTypes'
  BY <1>1, <1>2, EmptyRows DEF SiteTypes, SiteSteps
<1>4. RowsWereSaved'
  BY <1>1, <1>2, EmptyRows DEF RowsWereSaved
<1>5. NamesOnce' /\ FileUntouched'
  BY <1>1, <1>2, EmptyRows DEF NamesOnce, FileUntouched
<1>6. StoresAgree'
  BY <1>1, <1>2 DEF StoresAgree, WillAgree
<1>7. DeleteSpares' /\ Sites!FailedDeleteKeepsIt' /\ Sites!FailedSaveChangesNothing'
  BY <1>1, <1>2
     DEF DeleteSpares, Sites!FailedDeleteKeepsIt, Sites!FailedSaveChangesNothing, NoProfile, FileUntouched
<1> QED BY <1>3, <1>4, <1>5, <1>6, <1>7

LEMMA SiteWriteKeeps ==
  ASSUME SiteInv, Sites!Write
  PROVE SiteInv'
<1> USE DEF SiteInv
<1>1. /\ step = "write" /\ full' \in Sites!Cut(buffer)
      /\ mishap' = (mishap \/ full' # buffer)
      /\ UNCHANGED <<legacy, call, dropped, calls, before, ever>>
  BY DEF Sites!Write
<1>2. /\ call.op = "save" =>
           /\ result' = "true" /\ step' = "idle" /\ buffer' = <<>>
           /\ sites' = Sites!Put(sites, call.name, call.data)
      /\ call.op # "save" => step' = "older" /\ UNCHANGED <<result, buffer, sites>>
  BY DEF Sites!Write, Sites!Return
<1>3. /\ call.name \in SiteNames
      /\ call.op \in {"save", "delete"} /\ (call.op = "save" => call.data \in SiteData)
  BY <1>1, CallFields DEF SiteTypes
<1>4. full' \in Seq(Rows) /\ Members(full') \subseteq ever \cup {Sites!Junk} /\ NamedOnce(full')
  <2>1. buffer \in Seq(Rows) /\ NamedOnce(buffer) /\ Members(buffer) \subseteq ever \cup {Sites!Junk}
    BY DEF SiteTypes, NamesOnce, RowsWereSaved
  <2> DEFINE c == full'
  <2>2. c \in Sites!Cut(buffer)
    BY <1>1
  <2> HIDE DEF c
  <2>3. c \in Seq(Rows) /\ Members(c) \subseteq Members(buffer) \cup {Sites!Junk} /\ NamedOnce(c)
    BY <2>1, <2>2, CutRows
  <2> QED BY <2>1, <2>3 DEF c
<1>5. call.op = "save" => sites' \in SiteBooks
  BY <1>2, <1>3, BookPut DEF SiteTypes
<1>6. SiteTypes'
  BY <1>1, <1>2, <1>3, <1>4, <1>5, EmptyRows DEF SiteTypes, SiteSteps
<1>7. RowsWereSaved' /\ NamesOnce' /\ FileUntouched'
  BY <1>1, <1>2, <1>3, <1>4, EmptyRows DEF RowsWereSaved, NamesOnce, FileUntouched
<1>8. StoresAgree'
  <2>1. ~mishap' => ~mishap /\ full' = buffer
    BY <1>1
  <2>2. ~mishap' => WillAgree(buffer)
    BY <1>1, <2>1 DEF StoresAgree
  <2>3. CASE call.op = "save"
    BY <1>1, <1>2, <2>1, <2>2, <2>3 DEF StoresAgree, WillAgree
  <2>4. CASE call.op = "delete"
    BY <1>1, <1>2, <2>1, <2>2, <2>4 DEF StoresAgree, WillAgree
  <2> QED BY <1>3, <2>3, <2>4
<1>9. DeleteSpares' /\ Sites!FailedDeleteKeepsIt' /\ Sites!FailedSaveChangesNothing'
  BY <1>1, <1>2, <1>3
     DEF DeleteSpares, Sites!FailedDeleteKeepsIt, Sites!FailedSaveChangesNothing, NoProfile
<1> QED BY <1>6, <1>7, <1>8, <1>9

LEMMA SiteSessionDeleteKeeps ==
  ASSUME SiteInv, Sites!SessionDelete
  PROVE SiteInv'
<1> USE DEF SiteInv
<1>1. /\ step = "older" /\ call.op = "delete"
      /\ legacy' = Sites!Without(legacy, call.name) /\ sites' = Sites!Without(sites, call.name)
      /\ result' = "true" /\ step' = "idle" /\ buffer' = <<>>
      /\ UNCHANGED <<full, call, dropped, calls, mishap, before, ever>>
  BY DEF Sites!SessionDelete, Sites!Return, SiteTypes
<1>2. legacy' \in SiteBooks /\ sites' \in SiteBooks /\ call.name \notin DOMAIN legacy'
  BY <1>1, BookWithout DEF SiteTypes, Sites!Without
<1>3. SiteTypes'
  BY <1>1, <1>2, EmptyRows DEF SiteTypes, SiteSteps
<1>4. RowsWereSaved' /\ NamesOnce' /\ FileUntouched'
  BY <1>1, EmptyRows DEF RowsWereSaved, NamesOnce, FileUntouched
<1>5. StoresAgree'
  BY <1>1 DEF StoresAgree, WillAgree
<1>6. DeleteSpares' /\ Sites!FailedDeleteKeepsIt' /\ Sites!FailedSaveChangesNothing'
  BY <1>1, <1>2 DEF DeleteSpares, Sites!FailedDeleteKeepsIt, Sites!FailedSaveChangesNothing
<1> QED BY <1>3, <1>4, <1>5, <1>6

LEMMA SiteSessionDeleteFailsKeeps ==
  ASSUME SiteInv, Sites!SessionDeleteFails
  PROVE SiteInv'
<1> USE DEF SiteInv
<1>1. /\ step = "older" /\ call.op = "delete" /\ mishap' = TRUE
      /\ result' = (IF dropped THEN "true" ELSE "false") /\ step' = "idle" /\ buffer' = <<>>
      /\ UNCHANGED <<full, legacy, call, dropped, calls, before, sites, ever>>
  BY DEF Sites!SessionDeleteFails, Sites!Return, Sites!disk, SiteTypes
<1>2. SiteTypes'
  BY <1>1, EmptyRows DEF SiteTypes, SiteSteps
<1>3. RowsWereSaved' /\ NamesOnce' /\ FileUntouched' /\ StoresAgree'
  BY <1>1, EmptyRows DEF RowsWereSaved, NamesOnce, FileUntouched, StoresAgree
<1>4. DeleteSpares' /\ Sites!FailedDeleteKeepsIt' /\ Sites!FailedSaveChangesNothing'
  BY <1>1 DEF DeleteSpares, Sites!FailedDeleteKeepsIt, Sites!FailedSaveChangesNothing,
         NoProfile, Members, Sites!ToSet
<1> QED BY <1>2, <1>3, <1>4

LEMMA SiteSessionSaveKeeps ==
  ASSUME SiteInv, NEW n \in SiteNames, NEW d \in SiteData, Sites!SessionSave(n, d)
  PROVE SiteInv'
<1> USE DEF SiteInv
<1>1. /\ step = "idle" /\ n \notin Sites!Known(full)
      /\ legacy' = Sites!Put(legacy, n, d) /\ sites' = Sites!Put(sites, n, d)
      /\ ever' = ever \cup {Sites!Line(n, d)} /\ result' = "true" /\ call' = Sites!NoCall
      /\ UNCHANGED <<full, step, buffer, dropped, mishap, before>>
  BY DEF Sites!SessionSave
<1>2. legacy \in SiteBooks /\ sites \in SiteBooks
  BY DEF SiteTypes
<1>3. legacy' \in SiteBooks /\ sites' \in SiteBooks /\ Sites!Line(n, d) \in SiteLines
  BY <1>1, <1>2, BookPut DEF SiteLines, Sites!Line
<1>4. SiteTypes'
  BY <1>1, <1>3 DEF SiteTypes, SiteSteps
<1>5. RowsWereSaved' /\ NamesOnce' /\ FileUntouched'
  BY <1>1 DEF RowsWereSaved, NamesOnce, FileUntouched
<1>6. StoresAgree'
  <2>1. Visible(full, legacy') = But(Visible(full, legacy), n) \cup {Sites!Line(n, d)}
    BY <1>1, <1>2, VisibleSession
  <2>2. SitesOf(sites') = But(SitesOf(sites), n) \cup {Sites!Line(n, d)}
    BY <1>1, <1>2, SitesOfPut
  <2>3. ~mishap => Visible(full, legacy) = SitesOf(sites)
    BY <1>1 DEF StoresAgree
  <2>4. ~mishap => Visible(full, legacy') = SitesOf(sites')
    BY <2>1, <2>2, <2>3
  <2> QED BY <1>1, <2>4 DEF StoresAgree
<1>7. DeleteSpares' /\ Sites!FailedDeleteKeepsIt' /\ Sites!FailedSaveChangesNothing'
  BY <1>1 DEF DeleteSpares, Sites!FailedDeleteKeepsIt, Sites!FailedSaveChangesNothing, Sites!NoCall
<1> QED BY <1>4, <1>5, <1>6, <1>7

LEMMA SiteCrashKeeps ==
  ASSUME SiteInv, Sites!Crash
  PROVE SiteInv'
<1> USE DEF SiteInv
<1>1. /\ mishap' = TRUE /\ full' \in (IF step = "write" THEN Sites!Cut(buffer) ELSE {full})
      /\ step' = "idle" /\ call' = Sites!NoCall /\ buffer' = <<>> /\ dropped' = FALSE
      /\ result' = "crashed"
      /\ UNCHANGED <<legacy, calls, before, sites, ever>>
  BY DEF Sites!Crash
<1>2. full' \in Seq(Rows) /\ Members(full') \subseteq ever \cup {Sites!Junk} /\ NamedOnce(full')
  <2>1. CASE step # "write"
    BY <1>1, <2>1 DEF SiteTypes, NamesOnce, RowsWereSaved
  <2>2. CASE step = "write"
    <3>1. buffer \in Seq(Rows) /\ NamedOnce(buffer) /\ Members(buffer) \subseteq ever \cup {Sites!Junk}
      BY DEF SiteTypes, NamesOnce, RowsWereSaved
    <3> DEFINE c == full'
    <3>2. c \in Sites!Cut(buffer)
      BY <1>1, <2>2
    <3> HIDE DEF c
    <3>3. c \in Seq(Rows) /\ Members(c) \subseteq Members(buffer) \cup {Sites!Junk} /\ NamedOnce(c)
      BY <3>1, <3>2, CutRows
    <3> QED BY <3>1, <3>3 DEF c
  <2> QED BY <2>1, <2>2
<1>3. SiteTypes'
  BY <1>1, <1>2, EmptyRows DEF SiteTypes, SiteSteps
<1>4. RowsWereSaved' /\ NamesOnce' /\ FileUntouched' /\ StoresAgree'
  BY <1>1, <1>2, EmptyRows DEF RowsWereSaved, NamesOnce, FileUntouched, StoresAgree
<1>5. DeleteSpares' /\ Sites!FailedDeleteKeepsIt' /\ Sites!FailedSaveChangesNothing'
  BY <1>1 DEF DeleteSpares, Sites!FailedDeleteKeepsIt, Sites!FailedSaveChangesNothing, Sites!NoCall
<1> QED BY <1>3, <1>4, <1>5

\* Every step of the sites keeps the invariant.
LEMMA SiteNextKeeps == SiteInv /\ Sites!Next => SiteInv'
<1> SUFFICES ASSUME SiteInv, Sites!Next PROVE SiteInv'
  OBVIOUS
<1> QED
  BY SiteBeginKeeps, SiteReadKeeps, SiteReadFailsKeeps, SiteTruncateKeeps, SiteWriteKeeps,
     SiteSessionDeleteKeeps, SiteSessionDeleteFailsKeeps, SiteSessionSaveKeeps, SiteCrashKeeps
     DEF Sites!Next

LEMMA SiteStutterKeeps == SiteInv /\ UNCHANGED siteVars => SiteInv'
<1> SUFFICES ASSUME SiteInv, UNCHANGED siteVars PROVE SiteInv'
  OBVIOUS
<1> USE DEF siteVars, SiteInv
<1>1. SiteTypes' /\ RowsWereSaved' /\ NamesOnce' /\ FileUntouched'
  BY DEF SiteTypes, RowsWereSaved, NamesOnce, FileUntouched
<1>2. StoresAgree'
  BY DEF StoresAgree, WillAgree
<1>3. DeleteSpares' /\ Sites!FailedDeleteKeepsIt' /\ Sites!FailedSaveChangesNothing'
  BY DEF DeleteSpares, NoProfile, Sites!FailedDeleteKeepsIt, Sites!FailedSaveChangesNothing
<1> QED BY <1>1, <1>2, <1>3

\* Every step of the stores is one of the sites or leaves them alone.
LEMMA StoresStepOfSites ==
  [UseSessions \/ UseHosts \/ UseSites \/ UseLines]_allVars => Sites!Next \/ UNCHANGED siteVars
  BY DEF UseSessions, UseHosts, UseSites, UseLines, allVars

LEMMA SiteInvHolds == StoresSpec => []SiteInv
<1>1. StoresInit => SiteInv
  BY SiteInitRight DEF StoresInit
<1>2. SiteInv /\ [UseSessions \/ UseHosts \/ UseSites \/ UseLines]_allVars => SiteInv'
  BY StoresStepOfSites, SiteNextKeeps, SiteStutterKeeps
<1> QED BY <1>1, <1>2, PTL DEF StoresSpec

\* SetToSeq lists the members of a finite set, each of them once.
LEMMA SetToSeqLists ==
  ASSUME NEW S, IsFiniteSet(S)
  PROVE LET f == Sites!SetToSeq(S) IN
        /\ f \in Seq(S) /\ Members(f) = S
        /\ \A i, j \in DOMAIN f : f[i] = f[j] => i = j
<1> DEFINE f == Sites!SetToSeq(S)
<1> DEFINE n == Cardinality(S)
<1>1. n \in Nat /\ ExistsBijection(1..n, S)
  BY FS_CardinalityType
<1>2. PICK g : g \in Bijection(1..n, S)
  BY <1>1 DEF ExistsBijection
<1>3. g \in [1..n -> S] /\ Sites!IsInjective(g)
  BY <1>2 DEF Bijection, Injection, IsInjective, Sites!IsInjective
<1>4. f \in [1..n -> S] /\ Sites!IsInjective(f)
  <2>1. Sites!Cardinality(S) = n
    BY DEF Sites!Cardinality, Cardinality
  <2> QED BY <1>3, <2>1 DEF Sites!SetToSeq
<1> HIDE DEF f
<1>5. \A i, j \in 1..n : f[i] = f[j] => i = j
  BY <1>4 DEF Sites!IsInjective
<1> DEFINE T == {f[i] : i \in 1..n}
<1>6. T \in SUBSET S
  BY <1>4
<1>7. f \in Bijection(1..n, T)
  BY <1>4, <1>5 DEF Bijection, Injection, Surjection, IsInjective
<1>8. Cardinality(T) = n
  <2>1. ExistsBijection(1..n, T)
    BY <1>7 DEF ExistsBijection
  <2> HIDE DEF T, n
  <2> QED BY <1>1, <2>1, FS_CountingElements
<1>9. T = S
  <2> HIDE DEF T
  <2> QED BY <1>6, <1>8, FS_Subset
<1>10. DOMAIN f = 1..n /\ f \in Seq(S)
  BY <1>1, <1>4
<1> QED BY <1>5, <1>9, <1>10 DEF f, Members

\* The sites of the older store that the file does not have.
LEMMA OlderSites ==
  ASSUME SiteInv
  PROVE LET rest == {l \in SitesOf(legacy) : l.name \notin Sites!Known(full)} IN
        /\ IsFiniteSet(rest) /\ rest \subseteq Rows
        /\ \A l \in rest : l # Sites!Junk
        /\ \A l, m \in rest : l.name = m.name => l = m
        /\ Sites!ListSites = full \o Sites!SetToSeq(rest)
<1> USE DEF SiteInv
<1> DEFINE all == SitesOf(legacy)
<1> DEFINE rest == {l \in all : l.name \notin Sites!Known(full)}
<1>1. legacy \in [DOMAIN legacy -> SiteData] /\ DOMAIN legacy \subseteq SiteNames
  BY SiteBookIsFunction DEF SiteTypes
<1>2. IsFiniteSet(DOMAIN legacy)
  BY <1>1, StoresAssumption, FS_Subset DEF SitesAssumption
<1> DEFINE line == [n \in DOMAIN legacy |-> Sites!Line(n, legacy[n])]
<1>3. line \in Surjection(DOMAIN legacy, all)
  BY DEF Surjection, SitesOf
<1>4. IsFiniteSet(all)
  <2> HIDE DEF line, all
  <2> QED BY <1>2, <1>3, FS_Surjection
<1>5. IsFiniteSet(rest)
  <2>1. rest \in SUBSET all
    OBVIOUS
  <2> HIDE DEF rest, all
  <2> QED BY <1>4, <2>1, FS_Subset
<1>6. all \subseteq SiteLines
  BY <1>1 DEF SitesOf, Sites!Line, SiteLines
<1>7. \A l, m \in all : l.name = m.name => l = m
  BY DEF SitesOf, Sites!Line
<1>8. \A l \in all : l \in Rows /\ l # Sites!Junk
  <2>1. "junk" \notin SiteNames
    BY StoresAssumption DEF SitesAssumption
  <2> QED BY <1>6, <2>1 DEF Rows, SiteLines, Sites!Junk
<1>9. Sites!ListSites = full \o Sites!SetToSeq(rest)
  BY DEF Sites!ListSites, Sites!SessionList, SitesOf
<1> QED BY <1>5, <1>7, <1>8, <1>9

LEMMA SiteInvActs == SiteInv => SitesActAsOne
<1> SUFFICES ASSUME SiteInv PROVE SitesActAsOne
  OBVIOUS
<1> USE DEF SiteInv
<1> DEFINE older == {l \in SitesOf(legacy) : l.name \notin Sites!Known(full)}
<1> DEFINE tail == Sites!SetToSeq(older)
<1> DEFINE list == Sites!ListSites
<1>1. /\ IsFiniteSet(older) /\ older \subseteq Rows
      /\ \A l \in older : l # Sites!Junk
      /\ \A l, m \in older : l.name = m.name => l = m
      /\ list = full \o tail
  BY OlderSites
<1>2. tail \in Seq(older) /\ Members(tail) = older /\ \A i, j \in DOMAIN tail : tail[i] = tail[j] => i = j
  BY <1>1, SetToSeqLists
<1>3. \A l \in older : l.name \notin Sites!Known(full)
  OBVIOUS
<1>4. full \in Seq(Rows) /\ NamedOnce(full)
  BY DEF SiteTypes, NamesOnce
<1>5. Members(full) \cup older = Visible(full, legacy)
  BY DEF Visible
<1> HIDE DEF older, tail, list
<1>6. /\ Len(full) \in Nat /\ Len(tail) \in Nat /\ DOMAIN full = 1..Len(full) /\ DOMAIN tail = 1..Len(tail)
      /\ DOMAIN list = 1..(Len(full) + Len(tail))
      /\ \A i \in DOMAIN list : list[i] = IF i <= Len(full) THEN full[i] ELSE tail[i - Len(full)]
  BY <1>1, <1>2, <1>4
<1>7. \A i \in DOMAIN list :
        \/ i \in DOMAIN full /\ list[i] = full[i] /\ list[i].name \in Sites!Known(full)
        \/ /\ i - Len(full) \in DOMAIN tail /\ list[i] = tail[i - Len(full)]
           /\ list[i] \in older
  BY <1>2, <1>6 DEF Sites!Known, Members
<1>8. Members(list) = Visible(full, legacy)
  <2>1. \A l \in Members(full) : l \in Members(list)
    BY <1>6 DEF Members
  <2>2. ASSUME NEW l \in older PROVE l \in Members(list)
    <3>1. PICK i \in DOMAIN tail : l = tail[i]
      BY <1>2 DEF Members
    <3>2. Len(full) + i \in DOMAIN list /\ ~(Len(full) + i <= Len(full)) /\ (Len(full) + i) - Len(full) = i
      BY <1>6
    <3> QED BY <1>6, <3>1, <3>2 DEF Members
  <2>3. \A l \in Members(list) : l \in Members(full) \cup older
    BY <1>7 DEF Members
  <2> QED BY <1>5, <2>1, <2>2, <2>3
<1>9. Sites!TypeOK
  <2>1. Sites!ToSet(full) \cup Sites!ToSet(buffer) \subseteq ever \cup {Sites!Junk}
    BY DEF RowsWereSaved, Members, Sites!ToSet
  <2>2. DOMAIN legacy \subseteq SiteNames /\ DOMAIN sites \subseteq SiteNames
    BY SiteBookIsFunction DEF SiteTypes
  <2> QED BY <2>1, <2>2 DEF Sites!TypeOK, SiteTypes, SiteSteps
<1>10. Sites!ListIsWhatWasSaved
  BY <1>8 DEF Sites!ListIsWhatWasSaved, Sites!Shown, Sites!ToSet, Members, StoresAgree, SitesOf, list
<1>11. Sites!ShownOnce
  <2> SUFFICES ASSUME NEW i \in DOMAIN list, NEW j \in DOMAIN list,
                      list[i].name = list[j].name, list[i] # Sites!Junk
               PROVE i = j
    BY DEF Sites!ShownOnce, list
  <2>1. CASE list[i].name \in Sites!Known(full)
    BY <1>3, <1>4, <1>7, <2>1 DEF NamedOnce
  <2>2. CASE list[i].name \notin Sites!Known(full)
    <3>1. /\ i - Len(full) \in DOMAIN tail /\ list[i] = tail[i - Len(full)] /\ list[i] \in older
          /\ j - Len(full) \in DOMAIN tail /\ list[j] = tail[j - Len(full)] /\ list[j] \in older
      BY <1>7, <2>2
    <3>2. i - Len(full) = j - Len(full)
      BY <1>1, <1>2, <3>1
    <3> QED BY <1>6, <3>2
  <2> QED BY <2>1, <2>2
<1> QED BY <1>9, <1>10, <1>11 DEF SitesActAsOne

\* As long as nothing fails the list shows the sites as they were saved, in
\* whichever store; whatever fails, no site is shown twice, a delete that
\* reports failure left the full profile alone and a save that does the file:
\* for any finite set of names, any data and number of calls.
THEOREM SitesActAsOneAlways == StoresSpec => []SitesActAsOne
  BY SiteInvHolds, SiteInvActs, PTL

-----------------------------------------------------------------------------
\* The line format.

\* The positions at which FlattenSeq looks, and what it makes of no sequence and
\* of one more.
FlattensTo(f, ss) ==
  /\ f[0] = <<>> /\ \A i \in 1..Len(ss) : f[i] = f[i - 1] \o ss[i]
  /\ Lines!FlattenSeq(ss) = f[Len(ss)]

LEMMA FlattenByPositions ==
  ASSUME NEW A, NEW ss \in Seq(Seq(A))
  PROVE \E f \in [0..Len(ss) -> Seq(A)] : FlattensTo(f, ss)
<1> DEFINE V == Seq(A)
<1> DEFINE n == Len(ss)
<1> DEFINE next == [i \in 1..n |-> [p \in V |-> p \o ss[i]]]
<1> DEFINE Def(f) == [i \in 1..n |-> IF i = 1 THEN ss[i] ELSE f[i - 1] \o ss[i]]
<1> DEFINE P == CHOOSE f : f = Def(f)
<1>1. n \in Nat /\ \A i \in 1..n : ss[i] \in V
  OBVIOUS
<1>3. <<>> \in V
  BY EmptySeq
<1>4. next \in [1..n -> [V -> V]]
  <2>1. \A i \in 1..n, p \in V : p \o ss[i] \in V
    BY <1>1, ConcatProperties
  <2> QED BY <2>1
<1>5. PICK f \in [0..n -> V] : GoesOn(f, n, <<>>, next)
  <2> HIDE DEF next, V, n
  <2> QED BY <1>1, <1>3, <1>4, RecursionUpTo
<1>6. f[0] = <<>> /\ \A i \in 1..n : f[i] = f[i - 1] \o ss[i]
  <2> SUFFICES ASSUME NEW i \in 1..n PROVE f[i] = f[i - 1] \o ss[i]
    BY <1>5 DEF GoesOn
  <2>1. f[i - 1] \in V
    <3>1. i - 1 \in 0..n
      BY <1>1
    <3> HIDE DEF V, n
    <3> QED BY <3>1
  <2>2. next[i][f[i - 1]] = f[i - 1] \o ss[i]
    <3> HIDE DEF V
    <3> QED BY <2>1
  <2> QED BY <1>5, <2>2 DEF GoesOn
<1> HIDE DEF next
<1>6a. CASE n = 0
  <2>1. ss = <<>>
    BY <1>6a
  <2>2. Lines!FlattenSeq(ss) = <<>>
    BY <2>1, <1>6a DEF Lines!FlattenSeq
  <2> QED BY <1>6, <1>6a, <2>2 DEF FlattensTo
<1>6b. CASE n # 0
  <2>2. Lines!FlattenSeq(ss) = P[n]
    BY <1>6b DEF Lines!FlattenSeq
  <2> DEFINE g == [i \in 1..n |-> f[i]]
  <2>3. \A i \in 1..n : g[i] = IF i = 1 THEN ss[i] ELSE g[i - 1] \o ss[i]
    <3> SUFFICES ASSUME NEW i \in 1..n PROVE g[i] = IF i = 1 THEN ss[i] ELSE g[i - 1] \o ss[i]
      OBVIOUS
    <3>1. g[i] = f[i] /\ f[i] = f[i - 1] \o ss[i]
      BY <1>6
    <3>2. CASE i = 1
      <4>1. f[i - 1] = <<>> /\ ss[i] \in Seq(A)
        BY <1>6, <3>2
      <4> QED BY <3>1, <3>2, <4>1, ConcatEmptySeq
    <3>3. CASE i # 1
      <4>1. i - 1 \in 1..n
        BY <1>1, <3>3
      <4>2. g[i - 1] = f[i - 1]
        BY <4>1
      <4> HIDE DEF g
      <4> QED BY <3>1, <3>3, <4>2
    <3> QED BY <3>2, <3>3
  <2>4. g = Def(g)
    <3>1. \A i \in 1..n : g[i] = IF i = 1 THEN ss[i] ELSE g[i - 1] \o ss[i]
      BY <2>3
    <3> HIDE DEF n
    <3> QED BY <3>1, Zenon
  <2>5. P = Def(P)
    <3> HIDE DEF Def, g
    <3> QED BY <2>4
  <2> HIDE DEF P, g
  <2>6. \A i \in 1..n : P[i] = IF i = 1 THEN ss[i] ELSE P[i - 1] \o ss[i]
    BY <2>5
  <2> DEFINE h == [i \in 0..n |-> IF i = 0 THEN <<>> ELSE P[i]]
  <2>7. h[0] = <<>> /\ \A i \in 1..n : h[i] = P[i]
    BY <1>1
  <2> HIDE DEF h
  <2>8. \A i \in 1..n : f[i - 1] = h[i - 1] => f[i] = h[i]
    <3> SUFFICES ASSUME NEW i \in 1..n, f[i - 1] = h[i - 1] PROVE f[i] = h[i]
      OBVIOUS
    <3>0. f[i] = f[i - 1] \o ss[i] /\ h[i] = P[i]
          /\ P[i] = IF i = 1 THEN ss[i] ELSE P[i - 1] \o ss[i]
      BY <1>6, <2>6, <2>7, Zenon
    <3>1. CASE i = 1
      <4>1. f[i - 1] = <<>> /\ ss[i] \in Seq(A)
        BY <1>1, <1>6, <3>1
      <4>2. <<>> \o ss[i] = ss[i]
        BY <4>1, ConcatEmptySeq
      <4> QED BY <3>0, <3>1, <4>1, <4>2, Zenon
    <3>2. CASE i # 1
      <4>1. i - 1 \in 1..n
        BY <1>1, <3>2
      <4>2. h[i - 1] = P[i - 1]
        BY <2>7, <4>1
      <4> QED BY <3>0, <3>2, <4>2, Zenon
    <3> QED BY <3>1, <3>2
  <2>9. GoOnAlike(f, h, n)
    BY <1>6, <2>7, <2>8 DEF GoOnAlike
  <2>10. f[n] = h[n]
    BY <1>1, <2>9, SameAt
  <2>11. f[n] = P[n]
    BY <1>1, <1>6b, <2>7, <2>10
  <2> QED BY <1>6, <2>2, <2>11 DEF FlattensTo
<1> QED BY <1>6a, <1>6b

LEMMA FlattenNothing == Lines!FlattenSeq(<<>>) = <<>>
<1>1. <<>> \in Seq(Seq({})) /\ Len(<<>>) = 0
  BY EmptySeq
<1>2. PICK f \in [0..Len(<<>>) -> Seq({})] : FlattensTo(f, <<>>)
  BY <1>1, FlattenByPositions
<1> QED BY <1>1, <1>2 DEF FlattensTo

LEMMA FlattenMore ==
  ASSUME NEW A, NEW ss \in Seq(Seq(A)), NEW s \in Seq(A)
  PROVE Lines!FlattenSeq(Append(ss, s)) = Lines!FlattenSeq(ss) \o s
<1> DEFINE n == Len(ss)
<1> DEFINE t == Append(ss, s)
<1>1. t \in Seq(Seq(A)) /\ Len(t) = n + 1 /\ n \in Nat /\ t[n + 1] = s /\ \A i \in 1..n : t[i] = ss[i]
  BY AppendProperties
<1>2. PICK f \in [0..n -> Seq(A)] : FlattensTo(f, ss)
  BY FlattenByPositions
<1> HIDE DEF t
<1>3. PICK g \in [0..(n + 1) -> Seq(A)] : FlattensTo(g, t)
  <2>1. \E g \in [0..Len(t) -> Seq(A)] : FlattensTo(g, t)
    BY <1>1, FlattenByPositions
  <2> QED BY <1>1, <2>1
<1> HIDE DEF n
<1>4. GoOnAlike(f, g, n)
  <2>1. \A i \in 1..n : f[i] = f[i - 1] \o ss[i]
    BY <1>2, Zenon DEF FlattensTo, n
  <2>2. \A i \in 1..n : i \in 1..Len(t) /\ t[i] = ss[i]
    BY <1>1
  <2>3. \A i \in 1..Len(t) : g[i] = g[i - 1] \o t[i]
    BY <1>3, Zenon DEF FlattensTo
  <2>4. \A i \in 1..n : g[i] = g[i - 1] \o ss[i]
    BY <2>2, <2>3, Zenon
  <2>5. f[0] = g[0]
    BY <1>2, <1>3, Zenon DEF FlattensTo
  <2> QED BY <2>1, <2>4, <2>5, Zenon DEF GoOnAlike
<1>6. f[n] = g[n]
  BY <1>1, <1>4, SameAt
<1>7. g[n + 1] = g[n] \o t[n + 1]
  <2>1. n + 1 \in 1..Len(t) /\ (n + 1) - 1 = n
    BY <1>1
  <2> QED BY <2>1, <1>3 DEF FlattensTo
<1>8. Lines!FlattenSeq(ss) = f[n] /\ Lines!FlattenSeq(t) = g[n + 1]
  BY <1>1, <1>2, <1>3 DEF FlattensTo, n
<1> QED BY <1>1, <1>6, <1>7, <1>8 DEF t

LEMMA FlattenType ==
  ASSUME NEW A, NEW ss \in Seq(Seq(A))
  PROVE Lines!FlattenSeq(ss) \in Seq(A)
<1>1. PICK f \in [0..Len(ss) -> Seq(A)] : FlattensTo(f, ss)
  BY FlattenByPositions
<1> QED BY <1>1 DEF FlattensTo

\* The characters of files.
Characters == STRING \cup {"\\", "t", "n", "\t", "\n", "\r", "#"}

\* The loop of unescape.
UnescapeStates == [out : Seq(Characters), pending : BOOLEAN, ok : BOOLEAN]
NoneTaken == [out |-> <<>>, pending |-> FALSE, ok |-> TRUE]

LEMMA TakeCharType ==
  ASSUME NEW s \in UnescapeStates, NEW c \in Characters
  PROVE Lines!TakeChar(s, c) \in UnescapeStates
<1>1. \A x \in Characters : Append(s.out, x) \in Seq(Characters)
  BY DEF UnescapeStates
<1>2. c \in DOMAIN Lines!Escaped => Lines!Escaped[c] \in Characters
  <2> SUFFICES ASSUME c \in {"\\", "t", "n"} PROVE Lines!Escaped[c] \in Characters
    BY DEF Lines!Escaped
  <2>1. Lines!Escaped[c] = IF c = "t" THEN "\t" ELSE IF c = "n" THEN "\n" ELSE c
    BY DEF Lines!Escaped
  <2>2. "\t" \in Characters /\ "\n" \in Characters
    BY DEF Characters
  <2> QED BY <2>1, <2>2
<1>3. s = [out |-> s.out, pending |-> s.pending, ok |-> s.ok] /\ s.out \in Seq(Characters)
      /\ s.pending \in BOOLEAN /\ s.ok \in BOOLEAN
  BY DEF UnescapeStates
<1>4. CASE ~s.pending /\ c = "\\"
  BY <1>3, <1>4 DEF Lines!TakeChar, UnescapeStates
<1>5. CASE ~s.pending /\ c # "\\"
  <2>1. Lines!TakeChar(s, c) = [s EXCEPT !.out = Append(s.out, c)]
    BY <1>5 DEF Lines!TakeChar
  <2> QED BY <1>1, <1>3, <2>1 DEF UnescapeStates
<1>6. CASE s.pending /\ c \in DOMAIN Lines!Escaped
  <2>1. Lines!TakeChar(s, c) = [s EXCEPT !.out = Append(s.out, Lines!Escaped[c]), !.pending = FALSE]
    BY <1>6 DEF Lines!TakeChar
  <2> QED BY <1>1, <1>2, <1>3, <1>6, <2>1 DEF UnescapeStates
<1>7. CASE s.pending /\ c \notin DOMAIN Lines!Escaped
  <2>1. Lines!TakeChar(s, c) = [s EXCEPT !.ok = FALSE, !.pending = FALSE]
    BY <1>7 DEF Lines!TakeChar
  <2> QED BY <1>3, <2>1 DEF UnescapeStates
<1> QED BY <1>3, <1>4, <1>5, <1>6, <1>7

\* The positions at which unescape looks, and what it makes of one more character.
TakesTo(f, s) ==
  /\ f[0] = NoneTaken /\ \A i \in 1..Len(s) : f[i] = Lines!TakeChar(f[i - 1], s[i])
  /\ Lines!Taken(s) = f[Len(s)]

LEMMA UnescapeByPositions ==
  ASSUME NEW s \in Seq(Characters)
  PROVE \E f \in [0..Len(s) -> UnescapeStates] : TakesTo(f, s)
<1> DEFINE V == UnescapeStates
<1> DEFINE next == [i \in 1..Len(s) |-> [p \in V |-> Lines!TakeChar(p, s[i])]]
<1> DEFINE Def(f) == [i \in 0..Len(s) |-> IF i = 0 THEN NoneTaken ELSE Lines!TakeChar(f[i - 1], s[i])]
<1> DEFINE P == CHOOSE f : f = Def(f)
<1>1. Len(s) \in Nat /\ \A i \in 1..Len(s) : s[i] \in Characters
  OBVIOUS
<1>2. Lines!Taken(s) = P[Len(s)]
  BY DEF Lines!Taken, NoneTaken
<1>3. NoneTaken \in V
  BY EmptySeq DEF NoneTaken, UnescapeStates
<1>4. next \in [1..Len(s) -> [V -> V]]
  <2>1. \A i \in 1..Len(s), p \in V : Lines!TakeChar(p, s[i]) \in V
    BY <1>1, TakeCharType
  <2> QED BY <2>1
<1>5. PICK f \in [0..Len(s) -> V] : GoesOn(f, Len(s), NoneTaken, next)
  <2> HIDE DEF next, V
  <2> QED BY <1>1, <1>3, <1>4, RecursionUpTo
<1>6. f[0] = NoneTaken /\ \A i \in 1..Len(s) : f[i] = Lines!TakeChar(f[i - 1], s[i])
  <2> SUFFICES ASSUME NEW i \in 1..Len(s) PROVE f[i] = Lines!TakeChar(f[i - 1], s[i])
    BY <1>5 DEF GoesOn
  <2>1. f[i - 1] \in V
    BY <1>1
  <2>2. next[i][f[i - 1]] = Lines!TakeChar(f[i - 1], s[i])
    <3> HIDE DEF V
    <3> QED BY <2>1
  <2> QED BY <1>5, <2>2 DEF GoesOn
<1> HIDE DEF next, V
<1>7. f = Def(f)
  <2>0. \A i \in 0..Len(s) : i # 0 => i \in 1..Len(s)
    BY <1>1
  <2>1. \A i \in 0..Len(s) : f[i] = IF i = 0 THEN NoneTaken ELSE Lines!TakeChar(f[i - 1], s[i])
    BY <2>0, <1>6, Zenon
  <2> QED BY <2>1
<1>8. P = Def(P)
  <2> HIDE DEF Def
  <2> QED BY <1>7
<1> HIDE DEF P
<1>9. P[0] = NoneTaken /\ \A i \in 1..Len(s) : P[i] = Lines!TakeChar(P[i - 1], s[i])
  <2>1. \A i \in 0..Len(s) : P[i] = IF i = 0 THEN NoneTaken ELSE Lines!TakeChar(P[i - 1], s[i])
    BY <1>8
  <2> QED BY <2>1, <1>1
<1>10. GoOnAlike(f, P, Len(s))
  BY <1>6, <1>9 DEF GoOnAlike
<1>11. f[Len(s)] = P[Len(s)]
  BY <1>1, <1>10, SameAt
<1> QED BY <1>2, <1>6, <1>11 DEF TakesTo, V

LEMMA UnescapeNothing == Lines!Taken(<<>>) = NoneTaken
<1>1. <<>> \in Seq(Characters) /\ Len(<<>>) = 0
  BY EmptySeq
<1>2. PICK f \in [0..Len(<<>>) -> UnescapeStates] : TakesTo(f, <<>>)
  BY <1>1, UnescapeByPositions
<1> QED BY <1>1, <1>2 DEF TakesTo

LEMMA UnescapeMore ==
  ASSUME NEW s \in Seq(Characters), NEW c \in Characters
  PROVE Lines!Taken(Append(s, c)) = Lines!TakeChar(Lines!Taken(s), c)
<1> DEFINE n == Len(s)
<1> DEFINE t == Append(s, c)
<1>1. t \in Seq(Characters) /\ Len(t) = n + 1 /\ n \in Nat /\ t[n + 1] = c /\ \A i \in 1..n : t[i] = s[i]
  BY AppendProperties
<1>2. PICK f \in [0..n -> UnescapeStates] : TakesTo(f, s)
  BY UnescapeByPositions
<1> HIDE DEF t
<1>3. PICK g \in [0..(n + 1) -> UnescapeStates] : TakesTo(g, t)
  <2>1. \E g \in [0..Len(t) -> UnescapeStates] : TakesTo(g, t)
    BY <1>1, UnescapeByPositions
  <2> QED BY <1>1, <2>1
<1> HIDE DEF n
<1>4. GoOnAlike(f, g, n)
  BY <1>1, <1>2, <1>3 DEF TakesTo, GoOnAlike, n
<1>6. f[n] = g[n]
  BY <1>1, <1>4, SameAt
<1>7. g[n + 1] = Lines!TakeChar(g[n], t[n + 1])
  <2>1. n + 1 \in 1..Len(t) /\ (n + 1) - 1 = n
    BY <1>1
  <2> QED BY <2>1, <1>3 DEF TakesTo
<1>8. Lines!Taken(s) = f[n] /\ Lines!Taken(t) = g[n + 1]
  BY <1>1, <1>2, <1>3 DEF TakesTo, n
<1> QED BY <1>1, <1>6, <1>7, <1>8 DEF t

LEMMA UnescapeType ==
  ASSUME NEW s \in Seq(Characters)
  PROVE Lines!Taken(s) \in UnescapeStates
<1>1. PICK f \in [0..Len(s) -> UnescapeStates] : TakesTo(f, s)
  BY UnescapeByPositions
<1> QED BY <1>1 DEF TakesTo

\* What replaces one character.
Replacement(c, char, by) == IF c = char THEN by ELSE <<c>>

LEMMA ReplaceNothing ==
  ASSUME NEW char, NEW by PROVE Lines!Replace(<<>>, char, by) = <<>>
<1> DEFINE m == [i \in DOMAIN <<>> |-> IF <<>>[i] = char THEN by ELSE <<<<>>[i]>>]
<1>1. m = <<>>
  OBVIOUS
<1> QED BY <1>1, FlattenNothing DEF Lines!Replace

\* What replacing makes of a text with one more character, and with two.
ReplacesMore(s, c, char, by) ==
  /\ Lines!Replace(s, char, by) \in Seq(Characters)
  /\ Lines!Replace(Append(s, c), char, by) = Lines!Replace(s, char, by) \o Replacement(c, char, by)

LEMMA ReplaceMore ==
  ASSUME NEW s \in Seq(Characters), NEW c \in Characters,
         NEW char, NEW by \in Seq(Characters)
  PROVE ReplacesMore(s, c, char, by)
<1> DEFINE each(t) == [i \in DOMAIN t |-> Replacement(t[i], char, by)]
<1>1. \A t : Lines!Replace(t, char, by) = Lines!FlattenSeq(each(t))
  BY DEF Lines!Replace, Replacement
<1>2. \A x \in Characters : Replacement(x, char, by) \in Seq(Characters)
  <2>1. \A x \in Characters : <<x>> \in Seq(Characters)
    OBVIOUS
  <2> QED BY <2>1 DEF Replacement
<1>3. \A t \in Seq(Characters) : each(t) \in Seq(Seq(Characters)) /\ Len(each(t)) = Len(t)
  <2> SUFFICES ASSUME NEW t \in Seq(Characters)
               PROVE each(t) \in Seq(Seq(Characters)) /\ Len(each(t)) = Len(t)
    OBVIOUS
  <2>1. Len(t) \in Nat /\ DOMAIN t = 1..Len(t) /\ \A i \in 1..Len(t) : t[i] \in Characters
    OBVIOUS
  <2>2. each(t) \in [1..Len(t) -> Seq(Characters)]
    BY <1>2, <2>1
  <2> QED BY <2>1, <2>2
<1>4. Replacement(c, char, by) \in Seq(Characters)
  BY <1>2
<1>5. each(Append(s, c)) = Append(each(s), Replacement(c, char, by))
  <2> DEFINE t == Append(s, c)
  <2> DEFINE n == Len(s)
  <2>1. t \in Seq(Characters) /\ Len(t) = n + 1 /\ n \in Nat /\ t[n + 1] = c /\ \A i \in 1..n : t[i] = s[i]
    BY AppendProperties
  <2>2. each(s) \in Seq(Seq(Characters)) /\ Len(each(s)) = n
    BY <1>3
  <2> DEFINE r == Append(each(s), Replacement(c, char, by))
  <2>3. r \in Seq(Seq(Characters)) /\ Len(r) = n + 1 /\ r[n + 1] = Replacement(c, char, by)
        /\ \A i \in 1..n : r[i] = each(s)[i]
    <3> HIDE DEF each
    <3> QED BY <1>4, <2>2, AppendProperties
  <2>4. each(t) \in Seq(Seq(Characters)) /\ Len(each(t)) = n + 1
    BY <1>3, <2>1
  <2>5. DOMAIN t = 1..(n + 1) /\ DOMAIN s = 1..n
    BY <2>1
  <2> HIDE DEF r, t, n
  <2>6. ASSUME NEW i \in 1..(n + 1) PROVE each(t)[i] = r[i]
    <3>1. each(t)[i] = Replacement(t[i], char, by)
      BY <2>5
    <3>2. CASE i = n + 1
      BY <2>1, <2>3, <3>1, <3>2
    <3>3. CASE i # n + 1
      <4>1. i \in 1..n
        BY <2>1, <3>3
      <4>2. each(s)[i] = Replacement(s[i], char, by)
        BY <2>5, <4>1
      <4> QED BY <2>1, <2>3, <3>1, <4>1, <4>2
    <3> QED BY <3>2, <3>3
  <2> HIDE DEF each
  <2>7. each(t) = r
    BY <2>3, <2>4, <2>6, SeqEqual
  <2> QED BY <2>7 DEF r, t
<1> HIDE DEF each
<1>6. Lines!FlattenSeq(each(s)) \in Seq(Characters)
  BY <1>3, FlattenType
<1>7. Lines!FlattenSeq(Append(each(s), Replacement(c, char, by)))
        = Lines!FlattenSeq(each(s)) \o Replacement(c, char, by)
  BY <1>3, <1>4, FlattenMore
<1> QED BY <1>1, <1>5, <1>6, <1>7, Zenon DEF ReplacesMore

ReplacesTwo(s, c, d, char, by) ==
  Lines!Replace(s \o <<c, d>>, char, by)
    = (Lines!Replace(s, char, by) \o Replacement(c, char, by)) \o Replacement(d, char, by)

LEMMA ReplaceTwo ==
  ASSUME NEW s \in Seq(Characters), NEW c \in Characters, NEW d \in Characters,
         NEW char, NEW by \in Seq(Characters)
  PROVE ReplacesTwo(s, c, d, char, by)
<1>1. s \o <<c, d>> = Append(Append(s, c), d)
  OBVIOUS
<1>2. Append(s, c) \in Seq(Characters)
  BY AppendProperties
<1>3. ReplacesMore(s, c, char, by)
  BY ReplaceMore
<1>4. ReplacesMore(Append(s, c), d, char, by)
  BY <1>2, ReplaceMore
<1> QED BY <1>1, <1>3, <1>4, Zenon DEF ReplacesMore, ReplacesTwo

\* What the three replacements make of a character.
EscapedChar(c) ==
  IF c = "\\" THEN <<"\\", "\\">> ELSE IF c = "\t" THEN <<"\\", "t">>
  ELSE IF c = "\n" THEN <<"\\", "n">> ELSE <<c>>

\* What escaping makes of no text and of a text with one more character.
LEMMA EscapeNothing == Lines!Escape(<<>>) = <<>>
  BY ReplaceNothing, Zenon DEF Lines!Escape

LEMMA EscapeMore ==
  ASSUME NEW s \in Seq(Characters), NEW c \in Characters
  PROVE Lines!Escape(s) \in Seq(Characters) /\ Lines!Escape(Append(s, c)) = Lines!Escape(s) \o EscapedChar(c)
<1> DEFINE R1(t) == Lines!Replace(t, "\\", <<"\\", "\\">>)
<1> DEFINE R2(t) == Lines!Replace(t, "\t", <<"\\", "t">>)
<1> DEFINE R3(t) == Lines!Replace(t, "\n", <<"\\", "n">>)
<1>1. "\\" \in Characters /\ "t" \in Characters /\ "n" \in Characters
  BY DEF Characters
<1>2. <<"\\", "\\">> \in Seq(Characters) /\ <<"\\", "t">> \in Seq(Characters) /\ <<"\\", "n">> \in Seq(Characters)
  BY <1>1
<1>3. R1(s) \in Seq(Characters) /\ R1(Append(s, c)) = R1(s) \o Replacement(c, "\\", <<"\\", "\\">>)
  <2>1. ReplacesMore(s, c, "\\", <<"\\", "\\">>)
    BY <1>2, ReplaceMore
  <2> QED BY <2>1 DEF ReplacesMore
<1>4. \A t \in Seq(Characters), d \in Characters :
        R2(t) \in Seq(Characters) /\ R2(Append(t, d)) = R2(t) \o Replacement(d, "\t", <<"\\", "t">>)
  <2>1. \A t \in Seq(Characters), d \in Characters : ReplacesMore(t, d, "\t", <<"\\", "t">>)
    BY <1>2, ReplaceMore
  <2> QED BY <2>1, Zenon DEF ReplacesMore
<1>5. \A t \in Seq(Characters), d \in Characters :
        R3(t) \in Seq(Characters) /\ R3(Append(t, d)) = R3(t) \o Replacement(d, "\n", <<"\\", "n">>)
  <2>1. \A t \in Seq(Characters), d \in Characters : ReplacesMore(t, d, "\n", <<"\\", "n">>)
    BY <1>2, ReplaceMore
  <2> QED BY <2>1, Zenon DEF ReplacesMore
<1>6. \A t \in Seq(Characters), d \in Characters, e \in Characters :
        R2(t \o <<d, e>>) = (R2(t) \o Replacement(d, "\t", <<"\\", "t">>)) \o Replacement(e, "\t", <<"\\", "t">>)
  <2>1. \A t \in Seq(Characters), d \in Characters, e \in Characters : ReplacesTwo(t, d, e, "\t", <<"\\", "t">>)
    BY <1>2, ReplaceTwo
  <2> QED BY <2>1, Zenon DEF ReplacesTwo
<1>7. \A t \in Seq(Characters), d \in Characters, e \in Characters :
        R3(t \o <<d, e>>) = (R3(t) \o Replacement(d, "\n", <<"\\", "n">>)) \o Replacement(e, "\n", <<"\\", "n">>)
  <2>1. \A t \in Seq(Characters), d \in Characters, e \in Characters : ReplacesTwo(t, d, e, "\n", <<"\\", "n">>)
    BY <1>2, ReplaceTwo
  <2> QED BY <2>1, Zenon DEF ReplacesTwo
<1>8. \A t : Lines!Escape(t) = R3(R2(R1(t)))
  BY DEF Lines!Escape
<1>9. \A t \in Seq(Characters), d \in Characters : t \o <<d>> = Append(t, d)
  BY AppendIsConcat
<1>10. \A t \in Seq(Characters), d \in Characters, e \in Characters : (t \o <<d>>) \o <<e>> = t \o <<d, e>>
  <2> SUFFICES ASSUME NEW t \in Seq(Characters), NEW d \in Characters, NEW e \in Characters
               PROVE (t \o <<d>>) \o <<e>> = t \o <<d, e>>
    OBVIOUS
  <2>1. t \o <<d>> = Append(t, d) /\ Append(t, d) \in Seq(Characters)
    BY AppendIsConcat, AppendProperties
  <2>2. Append(t, d) \o <<e>> = Append(Append(t, d), e)
    BY <2>1, AppendIsConcat
  <2>3. Append(Append(t, d), e) = t \o <<d, e>>
    OBVIOUS
  <2> QED BY <2>1, <2>2, <2>3, Zenon
<1> HIDE DEF R1, R2, R3
<1> DEFINE a == R1(s)
<1> DEFINE b == R2(R1(s))
<1>11. a \in Seq(Characters) /\ b \in Seq(Characters) /\ R3(b) \in Seq(Characters)
  BY <1>1, <1>3, <1>4, <1>5
<1> HIDE DEF a, b
<1>12. CASE c = "\\"
  <2>1. R1(Append(s, c)) = a \o <<"\\", "\\">>
    BY <1>3, <1>12 DEF Replacement, a
  <2>2. R2(a \o <<"\\", "\\">>) = (R2(a) \o <<"\\">>) \o <<"\\">>
    BY <1>1, <1>6, <1>11 DEF Replacement
  <2>3. R2(a \o <<"\\", "\\">>) = b \o <<"\\", "\\">>
    BY <1>1, <1>10, <1>11, <2>2 DEF a, b
  <2>4. R3(b \o <<"\\", "\\">>) = (R3(b) \o <<"\\">>) \o <<"\\">>
    BY <1>1, <1>7, <1>11 DEF Replacement
  <2>5. R3(b \o <<"\\", "\\">>) = R3(b) \o <<"\\", "\\">>
    BY <1>1, <1>10, <1>11, <2>4
  <2> QED BY <1>8, <1>11, <1>12, <2>1, <2>3, <2>5 DEF EscapedChar, a, b
<1>13. CASE c = "\t"
  <2>1. R1(Append(s, c)) = a \o <<c>>
    BY <1>3, <1>13 DEF Replacement, a
  <2>2. R2(a \o <<c>>) = b \o <<"\\", "t">>
    BY <1>4, <1>9, <1>11, <1>13 DEF Replacement, a, b
  <2>4. R3(b \o <<"\\", "t">>) = (R3(b) \o <<"\\">>) \o <<"t">>
    BY <1>1, <1>7, <1>11 DEF Replacement
  <2>5. R3(b \o <<"\\", "t">>) = R3(b) \o <<"\\", "t">>
    BY <1>1, <1>10, <1>11, <2>4
  <2> QED BY <1>8, <1>11, <1>13, <2>1, <2>2, <2>5 DEF EscapedChar, a, b
<1>14. CASE c = "\n"
  <2>1. R1(Append(s, c)) = a \o <<c>>
    BY <1>3, <1>14 DEF Replacement, a
  <2>2. R2(a \o <<c>>) = b \o <<c>>
    BY <1>4, <1>9, <1>11, <1>14 DEF Replacement, a, b
  <2>3. R3(b \o <<c>>) = R3(b) \o <<"\\", "n">>
    BY <1>5, <1>9, <1>11, <1>14 DEF Replacement
  <2> QED BY <1>8, <1>11, <1>14, <2>1, <2>2, <2>3 DEF EscapedChar, a, b
<1>15. CASE c \notin {"\\", "\t", "\n"}
  <2>1. R1(Append(s, c)) = a \o <<c>>
    BY <1>3, <1>15 DEF Replacement, a
  <2>2. R2(a \o <<c>>) = b \o <<c>>
    BY <1>4, <1>9, <1>11, <1>15 DEF Replacement, a, b
  <2>3. R3(b \o <<c>>) = R3(b) \o <<c>>
    BY <1>5, <1>9, <1>11, <1>15 DEF Replacement
  <2> QED BY <1>8, <1>11, <1>15, <2>1, <2>2, <2>3 DEF EscapedChar, a, b
<1> QED BY <1>12, <1>13, <1>14, <1>15

LEMMA EscapeType ==
  ASSUME NEW s \in Seq(Characters) PROVE Lines!Escape(s) \in Seq(Characters)
<1>1. "t" \in Characters
  BY DEF Characters
<1> QED BY <1>1, EscapeMore, Zenon

LEMMA EscapedCharType ==
  ASSUME NEW c \in Characters PROVE EscapedChar(c) \in Seq(Characters)
<1>1. "\\" \in Characters /\ "t" \in Characters /\ "n" \in Characters
  BY DEF Characters
<1>2. <<"\\", "\\">> \in Seq(Characters) /\ <<"\\", "t">> \in Seq(Characters) /\ <<"\\", "n">> \in Seq(Characters)
      /\ <<c>> \in Seq(Characters)
  BY <1>1
<1> QED BY <1>2 DEF EscapedChar

\* The same as named facts, for the induction.
EscapesMore(s, c) ==
  Lines!Escape(s) \in Seq(Characters) /\ Lines!Escape(Append(s, c)) = Lines!Escape(s) \o EscapedChar(c)

LEMMA EscapeOneMore ==
  ASSUME NEW s \in Seq(Characters), NEW c \in Characters PROVE EscapesMore(s, c)
  BY EscapeMore, Zenon DEF EscapesMore

UnescapesMore(s, c) == Lines!Taken(Append(s, c)) = Lines!TakeChar(Lines!Taken(s), c)
LEMMA UnescapeOneMore ==
  ASSUME NEW s \in Seq(Characters), NEW c \in Characters PROVE UnescapesMore(s, c)
  BY UnescapeMore, Zenon DEF UnescapesMore

\* The state of the loop that has taken a whole text.
Whole(t) == [out |-> t, pending |-> FALSE, ok |-> TRUE]

LEMMA WholeState ==
  ASSUME NEW t \in Seq(Characters)
  PROVE /\ Whole(t) \in UnescapeStates
        /\ Whole(t).out = t /\ Whole(t).pending = FALSE /\ Whole(t).ok = TRUE
  BY DEF Whole, UnescapeStates
LEMMA StateIsWhole ==
  ASSUME NEW r \in UnescapeStates, NEW t, r.out = t, r.pending = FALSE, r.ok = TRUE
  PROVE r = Whole(t)
  BY DEF Whole, UnescapeStates

\* Unescaping takes back what escaping did.
LEMMA UnescapeEscaped ==
  ASSUME NEW t \in Seq(Characters) PROVE Lines!Taken(Lines!Escape(t)) = Whole(t)
<1> DEFINE Good == {s \in Seq(Characters) : Lines!Taken(Lines!Escape(s)) = Whole(s)}
<1>1. <<>> \in Good
  BY EmptySeq, EscapeNothing, UnescapeNothing DEF Whole, NoneTaken
<1>2. ASSUME NEW s \in Seq(Characters), NEW c \in Characters, s \in Good PROVE Append(s, c) \in Good
  <2> DEFINE e == Lines!Escape(s)
  <2>1. e \in Seq(Characters) /\ Lines!Escape(Append(s, c)) = e \o EscapedChar(c) /\ Lines!Taken(e) = Whole(s)
    BY <1>2, EscapeOneMore, Zenon DEF EscapesMore
  <2>2. Append(s, c) \in Seq(Characters)
    BY AppendProperties
  <2> HIDE DEF e
  <2>3. SUFFICES Lines!Taken(e \o EscapedChar(c)) = Whole(Append(s, c))
    BY <2>1, <2>2
  <2>4. \A x \in Characters : Lines!Taken(Append(e, x)) = Lines!TakeChar(Whole(s), x)
    BY <2>1, UnescapeOneMore, Zenon DEF UnescapesMore
  <2>5. CASE c \notin {"\\", "\t", "\n"}
    <3>1. e \o EscapedChar(c) = Append(e, c)
      BY <2>1, <2>5, AppendIsConcat DEF EscapedChar
    <3> DEFINE w == Whole(s)
    <3>2. w \in UnescapeStates /\ w.out = s /\ w.pending = FALSE /\ w.ok = TRUE
      BY WholeState
    <3> HIDE DEF w
    <3>3. Lines!TakeChar(w, c) = [w EXCEPT !.out = Append(s, c)]
      BY <2>5, <3>2 DEF Lines!TakeChar
    <3>4. [w EXCEPT !.out = Append(s, c)] \in UnescapeStates
      BY <2>2, <3>2 DEF UnescapeStates
    <3>5. /\ [w EXCEPT !.out = Append(s, c)].out = Append(s, c)
          /\ [w EXCEPT !.out = Append(s, c)].pending = FALSE
          /\ [w EXCEPT !.out = Append(s, c)].ok = TRUE
      BY <3>2 DEF UnescapeStates
    <3>6. Lines!TakeChar(w, c) = Whole(Append(s, c))
      BY <3>3, <3>4, <3>5, StateIsWhole
    <3> QED BY <2>4, <3>1, <3>6, Zenon DEF w
  <2>6. CASE c \in {"\\", "\t", "\n"}
    <3> DEFINE x == IF c = "\\" THEN "\\" ELSE IF c = "\t" THEN "t" ELSE "n"
    <3>1. EscapedChar(c) = <<"\\", x>> /\ x \in Characters /\ "\\" \in Characters
      BY <2>6 DEF EscapedChar, Characters
    <3>2. Lines!Escaped[x] = c /\ x \in DOMAIN Lines!Escaped
      BY <2>6 DEF Lines!Escaped
    <3> HIDE DEF x
    <3>3. e \o <<"\\", x>> = Append(Append(e, "\\"), x) /\ Append(e, "\\") \in Seq(Characters)
      <4>1. e \o <<"\\", x>> = Append(Append(e, "\\"), x)
        BY <2>1, <3>1
      <4>2. Append(e, "\\") \in Seq(Characters)
        BY <2>1, <3>1, AppendProperties
      <4> QED BY <4>1, <4>2
    <3> DEFINE w == Whole(s)
    <3> DEFINE mid == [w EXCEPT !.pending = TRUE]
    <3>4a. w \in UnescapeStates /\ w.out = s /\ w.pending = FALSE /\ w.ok = TRUE
      BY WholeState
    <3> HIDE DEF w
    <3>4. Lines!TakeChar(w, "\\") = mid
      BY <3>4a DEF Lines!TakeChar
    <3>4b. mid \in UnescapeStates /\ mid.out = s /\ mid.pending = TRUE /\ mid.ok = TRUE
      BY <3>4a DEF UnescapeStates
    <3> HIDE DEF mid
    <3> DEFINE next == [mid EXCEPT !.out = Append(s, c), !.pending = FALSE]
    <3>5. Lines!TakeChar(mid, x) = next
      BY <3>2, <3>4b DEF Lines!TakeChar
    <3>5a. next \in UnescapeStates
      BY <2>2, <3>4b DEF UnescapeStates
    <3>5b. next.out = Append(s, c) /\ next.pending = FALSE /\ next.ok = TRUE
      BY <3>4b DEF UnescapeStates
    <3> HIDE DEF next
    <3>6. Lines!TakeChar(mid, x) = Whole(Append(s, c))
      BY <3>5, <3>5a, <3>5b, StateIsWhole
    <3>7. Lines!Taken(Append(e, "\\")) = mid
      BY <2>4, <3>1, <3>4, Zenon DEF w
    <3>8. Lines!Taken(Append(Append(e, "\\"), x)) = Lines!TakeChar(mid, x)
      BY <3>1, <3>3, <3>7, UnescapeOneMore, Zenon DEF UnescapesMore
    <3> QED BY <3>1, <3>3, <3>6, <3>8, Zenon
  <2> QED BY <2>5, <2>6
<1> HIDE DEF Good
<1>3. Seq(Characters) \subseteq Good
  BY <1>1, <1>2, OneMoreMember
<1> QED BY <1>3 DEF Good

\* More text only adds to what was taken.
Continues(q, p) == \E w \in Seq(Characters) : q = p \o w

LEMMA UnescapeAdds ==
  ASSUME NEW s \in Seq(Characters), NEW w \in Seq(Characters)
  PROVE Continues(Lines!Taken(s \o w).out, Lines!Taken(s).out)
<1> DEFINE Good == {v \in Seq(Characters) : Continues(Lines!Taken(s \o v).out, Lines!Taken(s).out)}
<1> DEFINE p == Lines!Taken(s).out
<1>0. p \in Seq(Characters)
  BY UnescapeType DEF UnescapeStates
<1>1. <<>> \in Good
  <2>1. s \o <<>> = s /\ p = p \o <<>> /\ <<>> \in Seq(Characters)
    BY <1>0, ConcatEmptySeq, EmptySeq
  <2> QED BY <2>1, Zenon DEF Continues
<1>2. ASSUME NEW v \in Seq(Characters), NEW c \in Characters, v \in Good PROVE Append(v, c) \in Good
  <2> HIDE DEF p
  <2>1. s \o Append(v, c) = Append(s \o v, c) /\ s \o v \in Seq(Characters) /\ Append(v, c) \in Seq(Characters)
    <3>1. s \o v \in Seq(Characters) /\ Append(v, c) \in Seq(Characters)
      BY ConcatProperties, AppendProperties
    <3>2. s \o Append(v, c) = Append(s \o v, c)
      BY AppendToConcat DEF AppendsInto
    <3> QED BY <3>1, <3>2
  <2> DEFINE q == Lines!Taken(s \o v)
  <2>2. q \in UnescapeStates
    BY <2>1, UnescapeType
  <2>3. PICK u \in Seq(Characters) : q.out = p \o u
    BY <1>2, Zenon DEF Continues, p
  <2>4. Lines!Taken(s \o Append(v, c)) = Lines!TakeChar(q, c)
    BY <2>1, UnescapeOneMore, Zenon DEF UnescapesMore
  <2> HIDE DEF q
  <2>5. q = [out |-> q.out, pending |-> q.pending, ok |-> q.ok] /\ q.pending \in BOOLEAN
    BY <2>2 DEF UnescapeStates
  <2>6. \/ Lines!TakeChar(q, c).out = q.out
        \/ \E d \in Characters : Lines!TakeChar(q, c).out = Append(q.out, d)
    <3>1. CASE ~q.pending /\ c = "\\"
      BY <2>5, <3>1 DEF Lines!TakeChar
    <3>2. CASE ~q.pending /\ c # "\\"
      <4>1. Lines!TakeChar(q, c) = [q EXCEPT !.out = Append(q.out, c)]
        BY <3>2 DEF Lines!TakeChar
      <4> QED BY <2>5, <4>1
    <3>3. CASE q.pending /\ c \in DOMAIN Lines!Escaped
      <4>1. Lines!TakeChar(q, c) = [q EXCEPT !.out = Append(q.out, Lines!Escaped[c]), !.pending = FALSE]
        BY <3>3 DEF Lines!TakeChar
      <4>2. Lines!Escaped[c] \in Characters
        BY <3>3 DEF Lines!Escaped, Characters
      <4> QED BY <2>5, <4>1, <4>2
    <3>4. CASE q.pending /\ c \notin DOMAIN Lines!Escaped
      BY <2>5, <3>4 DEF Lines!TakeChar
    <3> QED BY <2>5, <3>1, <3>2, <3>3, <3>4
  <2>7. ASSUME NEW d \in Characters PROVE Continues(Append(q.out, d), p)
    <3>1. Append(p \o u, d) = p \o Append(u, d) /\ Append(u, d) \in Seq(Characters)
      <4>1. Append(u, d) \in Seq(Characters)
        BY AppendProperties
      <4>2. Append(p \o u, d) = p \o Append(u, d)
        <5>1. AppendsInto(p, u, d)
          BY <1>0, AppendToConcat
        <5> QED BY <5>1, Zenon DEF AppendsInto
      <4> QED BY <4>1, <4>2
    <3> QED BY <2>3, <3>1, Zenon DEF Continues
  <2>8. Continues(Lines!TakeChar(q, c).out, p)
    <3>1. Continues(q.out, p)
      BY <2>3, Zenon DEF Continues
    <3> QED BY <2>6, <2>7, <3>1, Zenon
  <2> QED BY <2>1, <2>4, <2>8 DEF p
<1> HIDE DEF Good
<1>3. Seq(Characters) \subseteq Good
  BY <1>1, <1>2, OneMoreMember
<1> QED BY <1>3 DEF Good

\* No tab and no end of line is left in an escaped text.
LEMMA EscapeIsFree ==
  ASSUME NEW t \in Seq(Characters), NEW c \in {"\t", "\n"}
  PROVE FreeOf(Lines!Escape(t), c)
<1> DEFINE Good == {s \in Seq(Characters) : FreeOf(Lines!Escape(s), c)}
<1>1. <<>> \in Good
  BY EmptySeq, EscapeNothing DEF FreeOf
<1>2. ASSUME NEW s \in Seq(Characters), NEW x \in Characters, s \in Good PROVE Append(s, x) \in Good
  <2>1. Lines!Escape(s) \in Seq(Characters) /\ Lines!Escape(Append(s, x)) = Lines!Escape(s) \o EscapedChar(x)
    BY EscapeOneMore, Zenon DEF EscapesMore
  <2>2. EscapedChar(x) \in Seq(Characters)
    BY EscapedCharType
  <2>3. FreeOf(EscapedChar(x), c)
    BY DEF FreeOf, EscapedChar
  <2>4. Append(s, x) \in Seq(Characters)
    BY AppendProperties
  <2>5. FreeOf(Lines!Escape(s) \o EscapedChar(x), c)
    BY <1>2, <2>1, <2>2, <2>3, FreeConcat
  <2> QED BY <2>1, <2>4, <2>5
<1> HIDE DEF Good
<1>3. Seq(Characters) \subseteq Good
  BY <1>1, <1>2, OneMoreMember
<1> QED BY <1>3 DEF Good

\* Trimming looks at the end only.
FrontIs(s, t) == Lines!Front(s) = t
LEMMA FrontOfAppend ==
  ASSUME NEW A, NEW s \in Seq(A), NEW c \in A
  PROVE FrontIs(Append(s, c), s)
<1> DEFINE t == Append(s, c)
<1>1. t \in Seq(A) /\ Len(t) = Len(s) + 1 /\ Len(s) \in Nat /\ \A i \in 1..Len(s) : t[i] = s[i]
  BY AppendProperties
<1> HIDE DEF t
<1>2. \A i \in 1..Len(s) : t[i] \in A
  BY <1>1
<1> DEFINE f == SubSeq(t, 1, Len(s))
<1>3. f \in Seq(A) /\ Len(f) = Len(s) /\ \A i \in 1..Len(s) : f[i] = t[i]
  <2>1. /\ f \in Seq(A) /\ Len(f) = IF 1 <= Len(s) THEN Len(s) - 1 + 1 ELSE 0
        /\ \A i \in 1 .. Len(s) - 1 + 1 : f[i] = t[1 + i - 1]
    BY <1>1, <1>2, SubSeqProperties
  <2> HIDE DEF f
  <2>2. \A i \in 1..Len(s) : i \in 1..Len(s) - 1 + 1 /\ 1 + i - 1 = i
    BY <1>1
  <2> QED BY <1>1, <2>1, <2>2
<1>4. Lines!Front(t) = f
  BY <1>1 DEF Lines!Front
<1> HIDE DEF f
<1>5. \A i \in 1..Len(f) : f[i] = s[i]
  BY <1>1, <1>3
<1>6. f = s
  BY <1>3, <1>5, SeqEqual
<1> QED BY <1>4, <1>6 DEF FrontIs, t

\* What trimming makes of one more character and of a longer text.
TrimmedIs(s, t) == Lines!Trimmed(s) = t
LEMMA TrimmedOfAppend ==
  ASSUME NEW A, NEW s \in Seq(A), NEW c \in A
  PROVE TrimmedIs(Append(s, c), IF c = "\r" THEN s ELSE Append(s, c))
<1> DEFINE t == Append(s, c)
<1>1. t # <<>> /\ t[Len(t)] = c
  <2>1. t # <<>> /\ Len(t) = Len(s) + 1 /\ t[Len(s) + 1] = c
    BY AppendProperties
  <2> QED BY <2>1
<1>2. Lines!Front(t) = s
  BY FrontOfAppend DEF FrontIs
<1> HIDE DEF t
<1> QED BY <1>1, <1>2 DEF TrimmedIs, Lines!Trimmed, Lines!Last, t

LEMMA TrimmedType ==
  ASSUME NEW A, NEW s \in Seq(A) PROVE Lines!Trimmed(s) \in Seq(A)
<1>1. CASE s = <<>>
  BY <1>1 DEF Lines!Trimmed
<1>2. CASE s # <<>>
  <2>1. PICK t \in Seq(A), c \in A : s = Append(t, c)
    BY <1>2, SequenceEmptyOrAppend
  <2>2. TrimmedIs(s, IF c = "\r" THEN t ELSE s)
    BY <2>1, TrimmedOfAppend
  <2> QED BY <2>2 DEF TrimmedIs
<1> QED BY <1>1, <1>2

LEMMA TrimmedOfConcat ==
  ASSUME NEW A, NEW s \in Seq(A), NEW w \in Seq(A), w # <<>>
  PROVE TrimmedIs(s \o w, s \o Lines!Trimmed(w))
<1>1. PICK v \in Seq(A), c \in A : w = Append(v, c)
  BY SequenceEmptyOrAppend
<1>2. s \o v \in Seq(A)
  BY ConcatProperties
<1>3. s \o w = Append(s \o v, c)
  <2>1. AppendsInto(s, v, c)
    BY AppendToConcat
  <2> QED BY <1>1, <2>1, Zenon DEF AppendsInto
<1>4. Lines!Trimmed(w) = IF c = "\r" THEN v ELSE w
  <2>1. TrimmedIs(Append(v, c), IF c = "\r" THEN v ELSE Append(v, c))
    BY TrimmedOfAppend
  <2> QED BY <1>1, <2>1, Zenon DEF TrimmedIs
<1> DEFINE u == s \o v
<1> HIDE DEF u
<1>5. Lines!Trimmed(Append(u, c)) = IF c = "\r" THEN u ELSE Append(u, c)
  <2>1. TrimmedIs(Append(u, c), IF c = "\r" THEN u ELSE Append(u, c))
    BY <1>2, TrimmedOfAppend DEF u
  <2> QED BY <2>1, Zenon DEF TrimmedIs
<1>6. CASE c = "\r"
  BY <1>3, <1>4, <1>5, <1>6, Zenon DEF TrimmedIs, u
<1>7. CASE c # "\r"
  BY <1>3, <1>4, <1>5, <1>7, Zenon DEF TrimmedIs, u
<1> QED BY <1>6, <1>7

\* A carriage return at the end is the only thing that is trimmed, and it is
\* not escaped.
TrimsEscaped(t) == Lines!Trimmed(Lines!Escape(t)) = Lines!Escape(Lines!Trimmed(t))
LEMMA TrimmedEscaped ==
  ASSUME NEW t \in Seq(Characters) PROVE TrimsEscaped(t)
<1>1. CASE t = <<>>
  BY <1>1, EscapeNothing DEF Lines!Trimmed, TrimsEscaped
<1>2. CASE t # <<>>
  <2>1. PICK u \in Seq(Characters), c \in Characters : t = Append(u, c)
    BY <1>2, SequenceEmptyOrAppend
  <2> DEFINE e == Lines!Escape(u)
  <2>2. e \in Seq(Characters) /\ Lines!Escape(t) = e \o EscapedChar(c)
    BY <2>1, EscapeOneMore, Zenon DEF EscapesMore
  <2>3. Lines!Trimmed(t) = IF c = "\r" THEN u ELSE t
    <3>1. TrimmedIs(Append(u, c), IF c = "\r" THEN u ELSE Append(u, c))
      BY TrimmedOfAppend
    <3> QED BY <2>1, <3>1, Zenon DEF TrimmedIs
  <2>4. EscapedChar(c) \in Seq(Characters) /\ EscapedChar(c) # <<>>
    <3>1. EscapedChar(c) # <<>>
      BY DEF EscapedChar
    <3> QED BY <3>1, EscapedCharType
  <2>5. Lines!Trimmed(EscapedChar(c)) = IF c = "\r" THEN <<>> ELSE EscapedChar(c)
    <3>1. CASE c \in {"\\", "\t", "\n"}
      BY <3>1 DEF EscapedChar, Lines!Trimmed, Lines!Last
    <3>2. CASE c \notin {"\\", "\t", "\n"}
      <4>1. EscapedChar(c) = <<c>> /\ <<c>> = Append(<<>>, c) /\ <<>> \in Seq(Characters)
        BY <3>2 DEF EscapedChar
      <4>2. TrimmedIs(Append(<<>>, c), IF c = "\r" THEN <<>> ELSE Append(<<>>, c))
        BY <4>1, TrimmedOfAppend
      <4> QED BY <4>1, <4>2, Zenon DEF TrimmedIs
    <3> QED BY <3>1, <3>2
  <2> HIDE DEF e
  <2>6. Lines!Trimmed(e \o EscapedChar(c)) = e \o Lines!Trimmed(EscapedChar(c))
    <3>1. TrimmedIs(e \o EscapedChar(c), e \o Lines!Trimmed(EscapedChar(c)))
      BY <2>2, <2>4, TrimmedOfConcat
    <3> QED BY <3>1, Zenon DEF TrimmedIs
  <2>7. e \o <<>> = e
    BY <2>2, ConcatEmptySeq
  <2>8. CASE c = "\r"
    BY <2>2, <2>3, <2>5, <2>6, <2>7, <2>8, Zenon DEF TrimsEscaped, e
  <2>9. CASE c # "\r"
    BY <2>2, <2>3, <2>5, <2>6, <2>9, Zenon DEF TrimsEscaped, e
  <2> QED BY <2>8, <2>9
<1> QED BY <1>1, <1>2

\* What begins with a text that is there begins as that does.
LEMMA BeginsAlike ==
  ASSUME NEW A, NEW s \in Seq(A), NEW w \in Seq(A), s # <<>>
  PROVE s \o w # <<>> /\ (s \o w)[1] = s[1]
<1>1. 1 \in 1..Len(s) /\ Len(s) \in Nat /\ Len(w) \in Nat
  BY EmptySeq
<1> DEFINE u == s \o w
<1>2. /\ u \in Seq(A) /\ Len(u) = Len(s) + Len(w)
      /\ \A i \in 1..Len(s) + Len(w) : u[i] = IF i <= Len(s) THEN s[i] ELSE w[i - Len(s)]
  BY ConcatProperties
<1> HIDE DEF u
<1>3. Len(u) # 0 /\ 1 \in 1..Len(s) + Len(w) /\ 1 <= Len(s)
  BY <1>1, <1>2
<1> QED BY <1>2, <1>3 DEF u

\* The parts of a blank text are blank.
LEMMA BlankParts ==
  ASSUME NEW A, NEW s \in Seq(A), NEW w \in Seq(A), Lines!IsBlank(s \o w)
  PROVE Lines!IsBlank(s) /\ Lines!IsBlank(w)
<1> DEFINE u == s \o w
<1>1. /\ u \in Seq(A) /\ Len(u) = Len(s) + Len(w) /\ Len(s) \in Nat /\ Len(w) \in Nat
      /\ \A i \in 1..Len(s) + Len(w) : u[i] = IF i <= Len(s) THEN s[i] ELSE w[i - Len(s)]
  BY ConcatProperties
<1>2. \A i \in DOMAIN u : u[i] \in Lines!Blanks
  BY DEF Lines!IsBlank
<1> HIDE DEF u
<1>2a. DOMAIN u = 1..Len(s) + Len(w)
  BY <1>1
<1>3. ASSUME NEW i \in DOMAIN s PROVE s[i] \in Lines!Blanks
  <2>1. i \in 1..Len(s) + Len(w) /\ i <= Len(s)
    BY <1>1
  <2> QED BY <1>1, <1>2, <1>2a, <2>1
<1>4. ASSUME NEW i \in DOMAIN w PROVE w[i] \in Lines!Blanks
  <2>1. i + Len(s) \in 1..Len(s) + Len(w) /\ ~(i + Len(s) <= Len(s)) /\ (i + Len(s)) - Len(s) = i
    BY <1>1
  <2> QED BY <1>1, <1>2, <1>2a, <2>1
<1> QED BY <1>3, <1>4 DEF Lines!IsBlank

\* How an escaped text begins, and that it is as blank as the text.
StartsAlike(t) ==
  /\ t # <<>> => Lines!Escape(t) # <<>> /\ (Lines!Escape(t)[1] = "#" => t[1] = "#")
  /\ Lines!IsBlank(Lines!Escape(t)) => Lines!IsBlank(t)
LEMMA EscapeStartsAlike ==
  ASSUME NEW t \in Seq(Characters) PROVE StartsAlike(t)
<1> DEFINE Good == {s \in Seq(Characters) : StartsAlike(s)}
<1>1. <<>> \in Good
  BY EmptySeq, EscapeNothing DEF StartsAlike, Lines!IsBlank
<1>2. ASSUME NEW s \in Seq(Characters), NEW c \in Characters, s \in Good PROVE Append(s, c) \in Good
  <2> DEFINE e == Lines!Escape(s)
  <2> DEFINE d == EscapedChar(c)
  <2> DEFINE u == Append(s, c)
  <2>1. e \in Seq(Characters) /\ Lines!Escape(u) = e \o d
    BY EscapeOneMore, Zenon DEF EscapesMore
  <2>2. d \in Seq(Characters) /\ d # <<>> /\ (d[1] = "#" => c = "#") /\ (Lines!IsBlank(d) => c \in Lines!Blanks)
    <3>1. d # <<>> /\ (d[1] = "#" => c = "#")
      BY DEF EscapedChar
    <3>2. Lines!IsBlank(d) => c \in Lines!Blanks
      <4>1. Lines!IsBlank(d) => d[1] \in Lines!Blanks
        <5>1. 1 \in DOMAIN d
          BY DEF EscapedChar
        <5> QED BY <5>1 DEF Lines!IsBlank
      <4> QED BY <4>1 DEF EscapedChar, Lines!Blanks
    <3> QED BY <3>1, <3>2, EscapedCharType
  <2>3. u \in Seq(Characters) /\ Len(u) = Len(s) + 1 /\ Len(s) \in Nat /\ u[Len(s) + 1] = c
        /\ \A i \in 1..Len(s) : u[i] = s[i]
    BY AppendProperties
  <2> HIDE DEF d, u
  <2>4. Lines!IsBlank(e \o d) => Lines!IsBlank(u)
    <3> SUFFICES ASSUME Lines!IsBlank(e \o d) PROVE Lines!IsBlank(u)
      OBVIOUS
    <3>0. e \in Seq(Characters) /\ d \in Seq(Characters)
      BY <2>1, <2>2
    <3>1. Lines!IsBlank(e) /\ Lines!IsBlank(d)
      <4> HIDE DEF e
      <4> QED BY <3>0, BlankParts
    <3>2. Lines!IsBlank(s) /\ c \in Lines!Blanks
      BY <1>2, <2>2, <3>1 DEF StartsAlike
    <3>3. ASSUME NEW i \in DOMAIN u PROVE u[i] \in Lines!Blanks
      <4>1. i = Len(s) + 1 \/ i \in 1..Len(s)
        BY <2>3
      <4> QED BY <2>3, <3>2, <4>1 DEF Lines!IsBlank
    <3> QED BY <3>3 DEF Lines!IsBlank
  <2>5. e \o d # <<>> /\ ((e \o d)[1] = "#" => u[1] = "#")
    <3>1. CASE s = <<>>
      <4>1. e \o d = d
        BY <2>2, <3>1, EscapeNothing, ConcatEmptySeq
      <4>2. u[1] = c
        BY <2>3, <3>1
      <4> QED BY <2>2, <4>1, <4>2, Zenon
    <3>2. CASE s # <<>>
      <4>1. e # <<>> /\ (e[1] = "#" => s[1] = "#")
        BY <1>2, <3>2 DEF StartsAlike
      <4>2. u[1] = s[1]
        <5>1. 1 \in 1..Len(s)
          BY <3>2, EmptySeq
        <5> QED BY <2>3, <5>1
      <4> HIDE DEF e
      <4>3. e \o d # <<>> /\ (e \o d)[1] = e[1]
        BY <2>1, <2>2, <4>1, BeginsAlike
      <4> QED BY <4>1, <4>2, <4>3, Zenon
    <3> QED BY <3>1, <3>2
  <2>6. StartsAlike(u)
    BY <2>1, <2>4, <2>5, Zenon DEF StartsAlike
  <2> QED BY <2>3, <2>6 DEF u
<1> HIDE DEF Good
<1>3. Seq(Characters) \subseteq Good
  BY <1>1, <1>2, OneMoreMember
<1> QED BY <1>3 DEF Good

\* What joining makes of one more text: it comes behind a tab, but the first.
Tabbed(i, t) == IF i = 1 THEN t ELSE <<"\t">> \o t

LEMMA TabbedType ==
  ASSUME NEW t \in Seq(Characters), NEW i PROVE Tabbed(i, t) \in Seq(Characters)
<1>1. <<"\t">> \in Seq(Characters)
  <2>1. "\t" \in Characters
    BY DEF Characters
  <2> QED BY <2>1
<1>2. <<"\t">> \o t \in Seq(Characters)
  BY <1>1, ConcatProperties
<1> QED BY <1>2 DEF Tabbed

LEMMA JoinNothing == Lines!Join(<<>>) = <<>>
<1> DEFINE m == [i \in DOMAIN <<>> |-> IF i = 1 THEN <<>>[i] ELSE <<"\t">> \o <<>>[i]]
<1>1. m = <<>>
  OBVIOUS
<1> QED BY <1>1, FlattenNothing DEF Lines!Join

JoinsMore(ts, t) ==
  Lines!Join(ts) \in Seq(Characters) /\ Lines!Join(Append(ts, t)) = Lines!Join(ts) \o Tabbed(Len(ts) + 1, t)
LEMMA JoinMore ==
  ASSUME NEW ts \in Seq(Seq(Characters)), NEW t \in Seq(Characters)
  PROVE JoinsMore(ts, t)
<1> DEFINE each(us) == [i \in DOMAIN us |-> Tabbed(i, us[i])]
<1>1. \A us : Lines!Join(us) = Lines!FlattenSeq(each(us))
  BY DEF Lines!Join, Tabbed
<1>2. \A x \in Seq(Characters), i \in Nat : Tabbed(i, x) \in Seq(Characters)
  BY TabbedType
<1> DEFINE T == Seq(Characters)
<1> DEFINE n == Len(ts)
<1> DEFINE us == Append(ts, t)
<1>3. us \in Seq(T) /\ Len(us) = n + 1 /\ n \in Nat /\ us[n + 1] = t /\ \A i \in 1..n : us[i] = ts[i]
  BY AppendProperties
<1> HIDE DEF T, us
<1>3a. (\A x \in T, i \in Nat : Tabbed(i, x) \in T) /\ ts \in Seq(T) /\ t \in T
  BY <1>2 DEF T
<1>3b. \A i \in 1..n : ts[i] \in T /\ i \in Nat
  BY <1>3a, ElementOfSeq
<1>3c. \A i \in 1..n + 1 : us[i] \in T /\ i \in Nat
  BY <1>3, ElementOfSeq
<1>4. each(ts) \in Seq(T) /\ Len(each(ts)) = n /\ \A i \in 1..n : each(ts)[i] = Tabbed(i, ts[i])
  <2>1. DOMAIN ts = 1..n /\ \A i \in 1..n : Tabbed(i, ts[i]) \in T
    BY <1>3, <1>3a, <1>3b
  <2> QED BY <2>1, <1>3
<1>5. each(us) \in Seq(T) /\ Len(each(us)) = n + 1 /\ \A i \in 1..n + 1 : each(us)[i] = Tabbed(i, us[i])
  <2>1. DOMAIN us = 1..n + 1 /\ \A i \in 1..n + 1 : Tabbed(i, us[i]) \in T
    BY <1>3, <1>3a, <1>3c
  <2> QED BY <2>1, <1>3
<1> DEFINE a == each(ts)
<1> DEFINE b == each(us)
<1>6. b = Append(a, Tabbed(n + 1, t))
  <2>1. a \in Seq(T) /\ b \in Seq(T) /\ Len(a) = n /\ Len(b) = Len(a) + 1
    BY <1>4, <1>5
  <2>2. \A i \in 1..Len(a) : b[i] = a[i]
    <3>1. \A i \in 1..n : i \in 1..n + 1
      BY <1>3
    <3> QED BY <1>3, <1>4, <1>5, <3>1
  <2>3. b[Len(a) + 1] = Tabbed(n + 1, t)
    <3>1. n + 1 \in 1..n + 1
      BY <1>3
    <3> QED BY <1>3, <1>4, <1>5, <3>1
  <2> HIDE DEF a, b
  <2>4. b = Append(a, b[Len(a) + 1])
    BY <2>1, <2>2, IsAppend
  <2> QED BY <2>3, <2>4, Zenon
<1>7. a \in Seq(Seq(Characters)) /\ Tabbed(n + 1, t) \in Seq(Characters)
  BY <1>3, <1>4, <1>2 DEF T
<1>8. Lines!Join(ts) = Lines!FlattenSeq(a) /\ Lines!Join(us) = Lines!FlattenSeq(b)
  BY <1>1, Zenon
<1> HIDE DEF a, b
<1>9. Lines!FlattenSeq(Append(a, Tabbed(n + 1, t))) = Lines!FlattenSeq(a) \o Tabbed(n + 1, t)
  BY <1>7, FlattenMore
<1>10. Lines!FlattenSeq(a) \in Seq(Characters)
  BY <1>7, FlattenType
<1> QED BY <1>6, <1>8, <1>9, <1>10, Zenon DEF JoinsMore, us, n

\* A line is empty or begins with the first text.
LEMMA JoinStarts ==
  ASSUME NEW ts \in Seq(Seq(Characters)), ts # <<>>
  PROVE Continues(Lines!Join(ts), ts[1])
<1> DEFINE T == Seq(Characters)
<1> DEFINE Good == {us \in Seq(T) : us # <<>> => Continues(Lines!Join(us), us[1])}
<1>1. <<>> \in Good
  BY EmptySeq
<1>2. ASSUME NEW us \in Seq(T), NEW t \in T, us \in Good PROVE Append(us, t) \in Good
  <2> DEFINE vs == Append(us, t)
  <2> DEFINE j == Lines!Join(us)
  <2> DEFINE d == Tabbed(Len(us) + 1, t)
  <2>1. j \in T /\ Lines!Join(vs) = j \o d
    <3>1. JoinsMore(us, t)
      BY JoinMore
    <3> QED BY <3>1, Zenon DEF JoinsMore
  <2>2. d \in T
    BY TabbedType
  <2>3. vs \in Seq(T) /\ Len(us) \in Nat /\ vs[Len(us) + 1] = t /\ \A i \in 1..Len(us) : vs[i] = us[i]
    <3> HIDE DEF T
    <3> QED BY AppendProperties
  <2>4. Continues(j \o d, vs[1])
    <3>1. CASE us = <<>>
      <4>1. Len(us) = 0 /\ vs[1] = t /\ d = t
        <5>1. Len(us) = 0
          BY <3>1
        <5> QED BY <2>3, <5>1 DEF Tabbed
      <4>2. j \o d = d
        BY <2>2, <3>1, JoinNothing, ConcatEmptySeq
      <4>3. t = t \o <<>> /\ <<>> \in T
        BY ConcatEmptySeq, EmptySeq
      <4>4. Continues(t, t)
        BY <4>3, Zenon DEF Continues
      <4> QED BY <4>1, <4>2, <4>4, Zenon
    <3>2. CASE us # <<>>
      <4>1. 1 \in 1..Len(us)
        BY <3>2, EmptySeq
      <4>2. vs[1] = us[1] /\ us[1] \in T
        BY <2>3, <4>1, ElementOfSeq
      <4>3. PICK w \in T : j = us[1] \o w
        BY <1>2, <3>2 DEF Continues
      <4> DEFINE x == us[1]
      <4> HIDE DEF j, d, x
      <4>3a. d \in Seq(Characters) /\ x \in Seq(Characters) /\ w \in Seq(Characters)
        BY <2>2, <4>2 DEF x
      <4>3b. (x \o w) \o d = x \o (w \o d)
        <5>1. Regroups(x, w, d)
          BY <4>3a, Regroup
        <5> QED BY <5>1, Zenon DEF Regroups
      <4>4. (x \o w) \o d = x \o (w \o d) /\ w \o d \in T
        BY <4>3a, <4>3b, ConcatProperties
      <4>5. j \o d = x \o (w \o d)
        BY <4>3, <4>4, Zenon DEF x
      <4> QED BY <4>2, <4>4, <4>5, Zenon DEF Continues, x
    <3> QED BY <3>1, <3>2
  <2> QED BY <2>1, <2>3, <2>4, Zenon
<1> HIDE DEF Good
<1>3. Seq(T) \subseteq Good
  <2> HIDE DEF T
  <2> QED BY <1>1, <1>2, OneMoreMember
<1> QED BY <1>3 DEF Good

\* Splitting takes back what joining did.
LEMMA SplitJoined ==
  ASSUME NEW ts \in Seq(Seq(Characters)), ts # <<>>, \A i \in 1..Len(ts) : FreeOf(ts[i], "\t")
  PROVE Split(Lines!Join(ts), "\t") = ts
<1> DEFINE T == Seq(Characters)
<1> DEFINE Good == {us \in Seq(T) : us # <<>> /\ (\A i \in 1..Len(us) : FreeOf(us[i], "\t"))
                                      => Split(Lines!Join(us), "\t") = us}
<1>1. <<>> \in Good
  BY EmptySeq
<1>2. ASSUME NEW us \in Seq(T), NEW t \in T, us \in Good PROVE Append(us, t) \in Good
  <2> DEFINE vs == Append(us, t)
  <2> DEFINE j == Lines!Join(us)
  <2>0. vs \in Seq(T) /\ Len(us) \in Nat /\ Len(vs) = Len(us) + 1 /\ vs[Len(us) + 1] = t
        /\ \A i \in 1..Len(us) : vs[i] = us[i]
    <3> HIDE DEF T
    <3> QED BY AppendProperties
  <2> HIDE DEF vs
  <2> SUFFICES ASSUME \A i \in 1..Len(vs) : FreeOf(vs[i], "\t") PROVE Split(Lines!Join(vs), "\t") = vs
    BY <2>0 DEF vs
  <2>1. FreeOf(t, "\t") /\ \A i \in 1..Len(us) : FreeOf(us[i], "\t")
    <3>1. Len(us) + 1 \in 1..Len(vs) /\ \A i \in 1..Len(us) : i \in 1..Len(vs)
      BY <2>0
    <3> QED BY <2>0, <3>1, Zenon
  <2>2. j \in T /\ Lines!Join(vs) = j \o Tabbed(Len(us) + 1, t)
    <3>1. JoinsMore(us, t)
      BY JoinMore
    <3> QED BY <3>1, Zenon DEF JoinsMore, vs
  <2>3. CASE us = <<>>
    <3>1. Len(us) + 1 = 1
      BY <2>3
    <3>2. Lines!Join(vs) = <<>> \o t
      <4>1. j = <<>> /\ Tabbed(1, t) = t
        BY <2>3, JoinNothing DEF Tabbed
      <4> HIDE DEF j
      <4> QED BY <2>2, <3>1, <4>1, Zenon
    <3>3. SplitsInto(<<>>, "\t", <<>>, <<>>)
      <4>1. Append(<<>>, <<>>) = <<<<>>>>
        OBVIOUS
      <4> QED BY <4>1, SplitOfNothing, Zenon DEF SplitsInto
    <3>4. <<>> \in Seq(T) /\ <<>> \in T
      BY EmptySeq
    <3>5. SplitsInto(<<>> \o t, "\t", <<>>, <<>> \o t)
      BY <2>1, <3>3, <3>4, SplitOfRun
    <3>6. <<>> \o t = t
      BY ConcatEmptySeq
    <3>7. Split(<<>> \o t, "\t") = Append(<<>>, t)
      BY <3>5, <3>6, Zenon DEF SplitsInto
    <3> QED BY <2>3, <3>2, <3>7, Zenon DEF vs
  <2>4. CASE us # <<>>
    <3>1. Split(j, "\t") = us
      BY <1>2, <2>1, <2>4, Zenon
    <3>2. PICK ps \in Seq(T), p \in T : us = Append(ps, p)
      <4> HIDE DEF T
      <4> QED BY <2>4, SequenceEmptyOrAppend
    <3>3. SplitsInto(j, "\t", ps, p)
      BY <3>1, <3>2, Zenon DEF SplitsInto
    <3>4. "\t" \in Characters
      BY DEF Characters
    <3> HIDE DEF j
    <3> DEFINE k == Append(j, "\t")
    <3>5. SplitsInto(k, "\t", us, <<>>)
      <4>1. SplitsInto(Append(j, "\t"), "\t", Append(ps, p), <<>>)
        BY <2>2, <3>2, <3>3, <3>4, SplitAtSeparator
      <4> QED BY <3>2, <4>1, Zenon
    <3>6. k \in T /\ k = j \o <<"\t">> /\ <<>> \in T /\ <<"\t">> \in T
      <4>1. k \in T /\ k = j \o <<"\t">> /\ <<>> \in T
        BY <2>2, <3>4, AppendProperties, AppendIsConcat, EmptySeq
      <4>2. <<"\t">> \in T
        BY <3>4
      <4> QED BY <4>1, <4>2
    <3>7. Lines!Join(vs) = k \o t
      <4>1. Len(us) + 1 # 1
        BY <2>0, <2>4, EmptySeq
      <4>2. Tabbed(Len(us) + 1, t) = <<"\t">> \o t
        BY <4>1 DEF Tabbed
      <4>3. (j \o <<"\t">>) \o t = j \o (<<"\t">> \o t)
        BY <2>2, <3>6, ConcatAssociative
      <4> QED BY <2>2, <3>6, <4>2, <4>3, Zenon
    <3> HIDE DEF k
    <3>8. SplitsInto(k \o t, "\t", us, <<>> \o t)
      BY <2>1, <3>5, <3>6, SplitOfRun
    <3>9. <<>> \o t = t
      BY ConcatEmptySeq
    <3> QED BY <3>7, <3>8, <3>9, Zenon DEF SplitsInto, vs
  <2> QED BY <2>3, <2>4
<1> HIDE DEF Good
<1>3. Seq(T) \subseteq Good
  <2> HIDE DEF T
  <2> QED BY <1>1, <1>2, OneMoreMember
<1> QED BY <1>3 DEF Good

\* A line has no end of line in it if its parts have none.
LEMMA JoinIsFree ==
  ASSUME NEW ts \in Seq(Seq(Characters)), \A i \in 1..Len(ts) : FreeOf(ts[i], "\n")
  PROVE FreeOf(Lines!Join(ts), "\n")
<1> DEFINE T == Seq(Characters)
<1> DEFINE Good == {us \in Seq(T) : (\A i \in 1..Len(us) : FreeOf(us[i], "\n")) => FreeOf(Lines!Join(us), "\n")}
<1>1. <<>> \in Good
  BY EmptySeq, JoinNothing DEF FreeOf
<1>2. ASSUME NEW us \in Seq(T), NEW t \in T, us \in Good PROVE Append(us, t) \in Good
  <2> DEFINE vs == Append(us, t)
  <2> DEFINE j == Lines!Join(us)
  <2> DEFINE d == Tabbed(Len(us) + 1, t)
  <2>0. vs \in Seq(T) /\ Len(us) \in Nat /\ Len(vs) = Len(us) + 1 /\ vs[Len(us) + 1] = t
        /\ \A i \in 1..Len(us) : vs[i] = us[i]
    <3> HIDE DEF T
    <3> QED BY AppendProperties
  <2> HIDE DEF vs
  <2> SUFFICES ASSUME \A i \in 1..Len(vs) : FreeOf(vs[i], "\n") PROVE FreeOf(Lines!Join(vs), "\n")
    BY <2>0 DEF vs
  <2>1. FreeOf(t, "\n") /\ \A i \in 1..Len(us) : FreeOf(us[i], "\n")
    <3>1. Len(us) + 1 \in 1..Len(vs) /\ \A i \in 1..Len(us) : i \in 1..Len(vs)
      BY <2>0
    <3> QED BY <2>0, <3>1, Zenon
  <2>2. j \in T /\ Lines!Join(vs) = j \o d
    <3>1. JoinsMore(us, t)
      BY JoinMore
    <3> QED BY <3>1, Zenon DEF JoinsMore, vs
  <2>3. d \in T /\ FreeOf(d, "\n")
    <3>1. <<"\t">> \in T /\ FreeOf(<<"\t">>, "\n")
      <4>1. "\t" \in Characters /\ "\t" # "\n"
        BY DEF Characters
      <4>2. <<"\t">> \in T
        BY <4>1
      <4>3. FreeOf(<<"\t">>, "\n")
        BY <4>1 DEF FreeOf
      <4> QED BY <4>2, <4>3
    <3>2. FreeOf(<<"\t">> \o t, "\n")
      BY <2>1, <3>1, FreeConcat
    <3>3. FreeOf(d, "\n")
      BY <2>1, <3>2, Zenon DEF Tabbed
    <3> QED BY <3>3, TabbedType
  <2>4. FreeOf(j, "\n")
    BY <1>2, <2>1
  <2> HIDE DEF j, d
  <2>5. FreeOf(j \o d, "\n")
    BY <2>2, <2>3, <2>4, FreeConcat
  <2> QED BY <2>2, <2>5, Zenon
<1> HIDE DEF Good
<1>3. Seq(T) \subseteq Good
  <2> HIDE DEF T
  <2> QED BY <1>1, <1>2, OneMoreMember
<1> QED BY <1>3 DEF Good

\* Trimming a line trims its last text.
TrimsJoined(ts, t) == Lines!Trimmed(Lines!Join(Append(ts, t))) = Lines!Join(Append(ts, Lines!Trimmed(t)))
LEMMA TrimmedJoined ==
  ASSUME NEW ts \in Seq(Seq(Characters)), NEW t \in Seq(Characters)
  PROVE TrimsJoined(ts, t)
<1> DEFINE n == Len(ts) + 1
<1> DEFINE j == Lines!Join(ts)
<1> DEFINE r == Lines!Trimmed(t)
<1>1. r \in Seq(Characters)
  BY TrimmedType
<1>2. j \in Seq(Characters) /\ Lines!Join(Append(ts, t)) = j \o Tabbed(n, t)
  <2>1. JoinsMore(ts, t)
    BY JoinMore
  <2> QED BY <2>1, Zenon DEF JoinsMore
<1> HIDE DEF r
<1>3. Lines!Join(Append(ts, r)) = j \o Tabbed(n, r)
  <2>1. JoinsMore(ts, r)
    BY <1>1, JoinMore
  <2> QED BY <2>1, Zenon DEF JoinsMore
<1>4. Lines!Trimmed(Tabbed(n, t)) = Tabbed(n, r)
  <2>1. CASE n = 1
    BY <2>1 DEF Tabbed, r
  <2>2. CASE n # 1
    <3>0. "\t" \in Characters /\ "\t" # "\r"
      BY DEF Characters
    <3>1. <<"\t">> \in Seq(Characters)
      BY <3>0
    <3>2. CASE t = <<>>
      <4>1. r = <<>>
        BY <3>2 DEF r, Lines!Trimmed
      <4>2. Lines!Trimmed(<<"\t">>) = <<"\t">>
        BY <3>0 DEF Lines!Trimmed, Lines!Last
      <4>3. <<"\t">> \o <<>> = <<"\t">>
        BY <3>1, ConcatEmptySeq
      <4> QED BY <2>2, <3>2, <4>1, <4>2, <4>3, Zenon DEF Tabbed
    <3>3. CASE t # <<>>
      <4>1. TrimmedIs(<<"\t">> \o t, <<"\t">> \o Lines!Trimmed(t))
        BY <3>1, <3>3, TrimmedOfConcat
      <4> QED BY <2>2, <4>1, Zenon DEF TrimmedIs, Tabbed, r
    <3> QED BY <3>2, <3>3
  <2> QED BY <2>1, <2>2
<1>5. Tabbed(n, t) \in Seq(Characters)
  BY TabbedType
<1> DEFINE d == Tabbed(n, t)
<1>6. CASE d # <<>>
  <2> HIDE DEF d, j
  <2>1. TrimmedIs(j \o d, j \o Lines!Trimmed(d))
    BY <1>2, <1>5, <1>6, TrimmedOfConcat DEF d
  <2> QED BY <1>2, <1>3, <1>4, <2>1, Zenon DEF TrimmedIs, TrimsJoined, d, r
<1>7. CASE d = <<>>
  <2>1. n = 1 /\ t = <<>>
    <3>1. <<"\t">> \o t # <<>>
      <4>1. <<"\t">> \in Seq(Characters) /\ <<"\t">> # <<>>
        BY DEF Characters
      <4> QED BY <4>1, ConcatEqualIffEmpty
    <3> QED BY <1>7, <3>1 DEF Tabbed
  <2>2. ts = <<>>
    BY <2>1
  <2>3. r = <<>> /\ Append(ts, t) = <<<<>>>> /\ Append(ts, r) = <<<<>>>>
    BY <2>1, <2>2 DEF r, Lines!Trimmed
  <2>4. Lines!Join(Append(ts, t)) = <<>>
    <3>1. j = <<>>
      BY <2>2, JoinNothing
    <3>2. <<>> \o <<>> = <<>>
      BY ConcatEmptySeq, EmptySeq
    <3> QED BY <1>2, <1>7, <3>1, <3>2, Zenon
  <2> QED BY <2>3, <2>4 DEF TrimsJoined, Lines!Trimmed, r
<1> QED BY <1>6, <1>7

\* Records whose texts may hold any character.
LineRecords == [1..RecordFields -> Seq(Characters)]

\* The text of a line, without its end.
EscapedTexts(r) == [k \in DOMAIN r |-> Lines!Escape(r[k])]
LineText(r) == Lines!Join(EscapedTexts(r))

LEMMA RecordIsSeq ==
  ASSUME NEW r \in LineRecords
  PROVE /\ RecordFields \in Nat \ {0} /\ r \in Seq(Seq(Characters)) /\ Len(r) = RecordFields
        /\ DOMAIN r = 1..RecordFields /\ \A k \in 1..RecordFields : r[k] \in Seq(Characters)
<1>1. RecordFields \in Nat \ {0}
  BY StoresAssumption DEF RecordsAssumption
<1> DEFINE T == Seq(Characters)
<1> HIDE DEF T
<1>2. r \in [1..RecordFields -> T]
  BY DEF LineRecords, T
<1>3. r \in Seq(T) /\ Len(r) = RecordFields /\ DOMAIN r = 1..RecordFields
  BY <1>1, <1>2
<1> QED BY <1>1, <1>2, <1>3 DEF T

LEMMA EscapedTextsType ==
  ASSUME NEW r \in LineRecords
  PROVE /\ EscapedTexts(r) \in Seq(Seq(Characters)) /\ Len(EscapedTexts(r)) = RecordFields
        /\ EscapedTexts(r) # <<>>
        /\ \A k \in 1..RecordFields : EscapedTexts(r)[k] = Lines!Escape(r[k])
        /\ \A k \in 1..RecordFields : FreeOf(EscapedTexts(r)[k], "\t") /\ FreeOf(EscapedTexts(r)[k], "\n")
<1>1. /\ RecordFields \in Nat \ {0} /\ DOMAIN r = 1..RecordFields
      /\ \A k \in 1..RecordFields : r[k] \in Seq(Characters)
  BY RecordIsSeq
<1> DEFINE e == EscapedTexts(r)
<1>2. \A k \in 1..RecordFields : e[k] = Lines!Escape(r[k])
  BY <1>1 DEF EscapedTexts
<1>3. \A k \in 1..RecordFields : Lines!Escape(r[k]) \in Seq(Characters)
  BY <1>1, EscapeType
<1> DEFINE T == Seq(Characters)
<1> HIDE DEF T
<1>4. e \in [1..RecordFields -> T]
  BY <1>1, <1>3 DEF EscapedTexts, T
<1> HIDE DEF e
<1>5. e \in Seq(T) /\ Len(e) = RecordFields /\ e # <<>>
  BY <1>1, <1>4
<1>6. \A k \in 1..RecordFields : FreeOf(Lines!Escape(r[k]), "\t") /\ FreeOf(Lines!Escape(r[k]), "\n")
  BY <1>1, EscapeIsFree
<1> QED BY <1>2, <1>5, <1>6 DEF e, T

LEMMA LineTextType ==
  ASSUME NEW r \in LineRecords
  PROVE LineText(r) \in Seq(Characters) /\ FreeOf(LineText(r), "\n")
<1> DEFINE e == EscapedTexts(r)
<1>1. e \in Seq(Seq(Characters)) /\ \A k \in 1..Len(e) : FreeOf(e[k], "\n")
  BY EscapedTextsType
<1> HIDE DEF e
<1>2. FreeOf(Lines!Join(e), "\n")
  BY <1>1, JoinIsFree
<1>3. Lines!Join(e) \in Seq(Characters)
  <2>1. <<>> \in Seq(Characters)
    BY EmptySeq
  <2>2. JoinsMore(e, <<>>)
    BY <1>1, <2>1, JoinMore
  <2> QED BY <2>2, Zenon DEF JoinsMore
<1> QED BY <1>2, <1>3 DEF LineText, e

\* The lines of a file, without the one for what follows the last end of line.
TextsOf(rs) == [i \in DOMAIN rs |-> LineText(rs[i])]
WrittenLines(rs) == <<<<"#">>>> \o TextsOf(rs)

LEMMA TextsOfMore ==
  ASSUME NEW rs \in Seq(LineRecords)
  PROVE /\ TextsOf(rs) \in Seq(Seq(Characters)) /\ Len(TextsOf(rs)) = Len(rs)
        /\ \A i \in 1..Len(rs) : TextsOf(rs)[i] = LineText(rs[i])
        /\ \A r \in LineRecords : TextsOf(Append(rs, r)) = Append(TextsOf(rs), LineText(r))
<1> DEFINE T == Seq(Characters)
<1> HIDE DEF T
<1> DEFINE f == [r \in LineRecords |-> LineText(r)]
<1>1. f \in [LineRecords -> T] /\ \A r \in LineRecords : f[r] = LineText(r)
  <2>1. \A r \in LineRecords : LineText(r) \in T
    BY LineTextType DEF T
  <2> QED BY <2>1
<1> HIDE DEF f
<1>2. \A s \in Seq(LineRecords) : TextsOf(s) = Mapped(s, f)
  <2>1. \A s \in Seq(LineRecords) : \A i \in DOMAIN s : s[i] \in LineRecords
    OBVIOUS
  <2> QED BY <1>1, <2>1 DEF TextsOf, Mapped
<1>3. /\ Mapped(rs, f) \in Seq(T) /\ Len(Mapped(rs, f)) = Len(rs)
      /\ \A i \in 1..Len(rs) : Mapped(rs, f)[i] = f[rs[i]]
  <2>1. MapsEach(rs, f, T)
    BY <1>1, MappedType
  <2> QED BY <2>1, Zenon DEF MapsEach
<1>4. \A i \in 1..Len(rs) : rs[i] \in LineRecords
  BY ElementOfSeq
<1>5. ASSUME NEW r \in LineRecords PROVE TextsOf(Append(rs, r)) = Append(TextsOf(rs), LineText(r))
  <2>1. MapsMore(rs, r, f)
    BY <1>1, MappedMore
  <2>2. Append(rs, r) \in Seq(LineRecords)
    BY AppendProperties
  <2> QED BY <1>1, <1>2, <2>1, <2>2, Zenon DEF MapsMore
<1> QED BY <1>1, <1>2, <1>3, <1>4, <1>5 DEF T

\* What one more record adds to the file.
RendersMore(rs, r) ==
  /\ Lines!Render(rs) \in Seq(Characters)
  /\ Lines!Render(Append(rs, r)) = Lines!Render(rs) \o (LineText(r) \o <<"\n">>)
LEMMA RenderMore ==
  ASSUME NEW rs \in Seq(LineRecords), NEW r \in LineRecords
  PROVE RendersMore(rs, r)
<1>0. "\n" \in Characters /\ "#" \in Characters
  BY DEF Characters
<1>0a. <<"\n">> \in Seq(Characters) /\ Lines!Header \in Seq(Characters)
  BY <1>0 DEF Lines!Header
<1> DEFINE T == Seq(Characters)
<1> HIDE DEF T
<1> DEFINE Ended(q) == LineText(q) \o <<"\n">>
<1> DEFINE f == [q \in LineRecords |-> Ended(q)]
<1>1. f \in [LineRecords -> T] /\ \A q \in LineRecords : f[q] = Ended(q) /\ Lines!Line(q) = Ended(q)
  <2>1. ASSUME NEW q \in LineRecords PROVE Ended(q) \in T
    <3>1. LineText(q) \in Seq(Characters)
      BY LineTextType
    <3> QED BY <1>0a, <3>1, ConcatProperties DEF T
  <2>2. \A q \in LineRecords : Lines!Line(q) = Ended(q)
    BY DEF Lines!Line, LineText, EscapedTexts
  <2> HIDE DEF Ended
  <2> QED BY <2>1, <2>2
<1> HIDE DEF f
<1>2. \A s \in Seq(LineRecords) : Lines!Render(s) = Lines!Header \o Lines!FlattenSeq(Mapped(s, f))
  <2> SUFFICES ASSUME NEW s \in Seq(LineRecords)
               PROVE Lines!Render(s) = Lines!Header \o Lines!FlattenSeq(Mapped(s, f))
    OBVIOUS
  <2>1. \A i \in DOMAIN s : s[i] \in LineRecords
    OBVIOUS
  <2> HIDE DEF Ended
  <2>2. [i \in DOMAIN s |-> Lines!Line(s[i])] = Mapped(s, f)
    BY <1>1, <2>1 DEF Mapped
  <2> QED BY <2>2, Zenon DEF Lines!Render
<1>3. Mapped(rs, f) \in Seq(Seq(Characters)) /\ f[r] \in Seq(Characters)
  <2>1. MapsEach(rs, f, T)
    BY <1>1, MappedType
  <2> QED BY <1>1, <2>1 DEF MapsEach, T
<1>4. Mapped(Append(rs, r), f) = Append(Mapped(rs, f), f[r])
  <2>1. MapsMore(rs, r, f)
    BY <1>1, MappedMore
  <2> QED BY <2>1, Zenon DEF MapsMore
<1> DEFINE m == Mapped(rs, f)
<1> DEFINE x == f[r]
<1> DEFINE l == Lines!FlattenSeq(m)
<1>5. Lines!FlattenSeq(Append(m, x)) = l \o x
  <2> HIDE DEF m, x
  <2> QED BY <1>3, FlattenMore DEF m, x
<1>6. l \in Seq(Characters)
  <2> HIDE DEF m
  <2> QED BY <1>3, FlattenType DEF m
<1>7. Append(rs, r) \in Seq(LineRecords)
  BY AppendProperties
<1>8. Lines!Render(rs) = Lines!Header \o l /\ Lines!Render(Append(rs, r)) = Lines!Header \o (l \o x)
  BY <1>2, <1>4, <1>5, <1>7, Zenon
<1> HIDE DEF l, m, x
<1>9. Regroups(Lines!Header, l, x)
  BY <1>0a, <1>3, <1>6, Regroup DEF x
<1>10. Lines!Header \o l \in Seq(Characters)
  BY <1>0a, <1>6, ConcatProperties
<1>11. x = Ended(r)
  BY <1>1, Zenon DEF x
<1> QED BY <1>8, <1>9, <1>10, <1>11, Zenon DEF RendersMore, Regroups

\* A file is split into the lines that were written to it.
LEMMA SplitRendered ==
  ASSUME NEW rs \in Seq(LineRecords)
  PROVE SplitsInto(Lines!Render(rs), "\n", WrittenLines(rs), <<>>)
<1> DEFINE Good == {s \in Seq(LineRecords) : SplitsInto(Lines!Render(s), "\n", WrittenLines(s), <<>>)}
<1> DEFINE T == Seq(Characters)
<1> HIDE DEF T
<1>0. "\n" \in Characters /\ "#" \in Characters /\ "#" # "\n"
  BY DEF Characters
<1>0a. <<>> \in Seq(Seq(Characters)) /\ <<>> \in Seq(Characters)
  BY EmptySeq
<1>0b. <<"#">> \in Seq(Characters) /\ <<"\n">> \in Seq(Characters)
  BY <1>0
<1>0c. <<<<"#">>>> \in Seq(Seq(Characters))
  BY <1>0b
<1>1. <<>> \in Good
  <2>1. <<>> \in Seq(LineRecords)
    BY EmptySeq
  <2>2. Lines!Render(<<>>) = Append(<<"#">>, "\n")
    <3> DEFINE m == [i \in DOMAIN <<>> |-> Lines!Line(<<>>[i])]
    <3>1. m = <<>>
      OBVIOUS
    <3>2. Lines!Header \o <<>> = Lines!Header
      <4>1. Lines!Header \in Seq(Characters)
        BY <1>0 DEF Lines!Header
      <4> QED BY <4>1, ConcatEmptySeq
    <3>3. Lines!Render(<<>>) = Lines!Header
      BY <3>1, <3>2, FlattenNothing, Zenon DEF Lines!Render
    <3> QED BY <3>3 DEF Lines!Header
  <2>3. WrittenLines(<<>>) = Append(<<>>, <<"#">>)
    <3>1. TextsOf(<<>>) = <<>>
      BY DEF TextsOf
    <3>2. <<<<"#">>>> \o <<>> = <<<<"#">>>>
      BY <1>0c, ConcatEmptySeq
    <3>3. Append(<<>>, <<"#">>) = <<<<"#">>>>
      OBVIOUS
    <3> QED BY <3>1, <3>2, <3>3, Zenon DEF WrittenLines
  <2>4. SplitsInto(<<>>, "\n", <<>>, <<>>)
    <3>1. Append(<<>>, <<>>) = <<<<>>>>
      OBVIOUS
    <3> QED BY <3>1, SplitOfNothing, Zenon DEF SplitsInto
  <2>5. FreeOf(<<"#">>, "\n")
    BY <1>0 DEF FreeOf
  <2>6. SplitsInto(<<>> \o <<"#">>, "\n", <<>>, <<>> \o <<"#">>)
    BY <1>0a, <1>0b, <2>4, <2>5, SplitOfRun
  <2>7. <<>> \o <<"#">> = <<"#">>
    BY <1>0b, ConcatEmptySeq
  <2>8. SplitsInto(<<"#">>, "\n", <<>>, <<"#">>)
    BY <2>6, <2>7, Zenon
  <2>9. SplitsInto(Append(<<"#">>, "\n"), "\n", Append(<<>>, <<"#">>), <<>>)
    BY <1>0, <1>0a, <1>0b, <2>8, SplitAtSeparator
  <2>10. SplitsInto(Lines!Render(<<>>), "\n", WrittenLines(<<>>), <<>>)
    BY <2>2, <2>3, <2>9, Zenon
  <2> QED BY <2>1, <2>10
<1>2. ASSUME NEW s \in Seq(LineRecords), NEW r \in LineRecords, s \in Good PROVE Append(s, r) \in Good
  <2> DEFINE text == Lines!Render(s)
  <2> DEFINE ls == WrittenLines(s)
  <2> DEFINE l == LineText(r)
  <2>1. text \in Seq(Characters) /\ Lines!Render(Append(s, r)) = text \o (l \o <<"\n">>)
    <3>1. RendersMore(s, r)
      BY RenderMore
    <3> QED BY <3>1, Zenon DEF RendersMore
  <2>2. TextsOf(s) \in Seq(Seq(Characters)) /\ TextsOf(Append(s, r)) = Append(TextsOf(s), l)
    BY TextsOfMore
  <2>3. l \in Seq(Characters) /\ FreeOf(l, "\n")
    BY LineTextType
  <2>4. ls \in Seq(Seq(Characters)) /\ WrittenLines(Append(s, r)) = Append(ls, l)
    <3> DEFINE ts == TextsOf(s)
    <3> HIDE DEF l, ts
    <3>1. ts \in Seq(T) /\ l \in T /\ <<<<"#">>>> \in Seq(T)
      BY <1>0c, <2>2, <2>3 DEF T, ts
    <3>2. AppendsInto(<<<<"#">>>>, ts, l)
      BY <3>1, AppendToConcat
    <3>3. <<<<"#">>>> \o ts \in Seq(T)
      BY <3>1, ConcatProperties
    <3> QED BY <2>2, <3>2, <3>3, Zenon DEF AppendsInto, WrittenLines, T, ts
  <2>5. SplitsInto(text, "\n", ls, <<>>)
    BY <1>2
  <2> HIDE DEF text, ls, l
  <2>6. SplitsInto(text \o l, "\n", ls, <<>> \o l)
    BY <1>0a, <2>1, <2>3, <2>4, <2>5, SplitOfRun
  <2>7. <<>> \o l = l
    BY <2>3, ConcatEmptySeq
  <2> DEFINE u == text \o l
  <2>8. u \in Seq(Characters)
    BY <2>1, <2>3, ConcatProperties
  <2>9. SplitsInto(u, "\n", ls, l)
    BY <2>6, <2>7, Zenon
  <2>10. text \o (l \o <<"\n">>) = u \o <<"\n">>
    <3>1. Regroups(text, l, <<"\n">>)
      BY <1>0b, <2>1, <2>3, Regroup
    <3> QED BY <3>1, Zenon DEF Regroups
  <2> HIDE DEF u
  <2>11. u \o <<"\n">> = Append(u, "\n")
    BY <1>0, <2>8, AppendIsConcat
  <2>12. SplitsInto(Append(u, "\n"), "\n", Append(ls, l), <<>>)
    BY <1>0, <2>3, <2>4, <2>8, <2>9, SplitAtSeparator
  <2>13. Append(s, r) \in Seq(LineRecords)
    BY AppendProperties
  <2>14. SplitsInto(Lines!Render(Append(s, r)), "\n", WrittenLines(Append(s, r)), <<>>)
    BY <2>1, <2>4, <2>10, <2>11, <2>12, Zenon DEF ls, l
  <2> QED BY <2>13, <2>14
<1> HIDE DEF Good
<1>3. Seq(LineRecords) \subseteq Good
  BY <1>1, <1>2, OneMoreMember
<1> QED BY <1>3 DEF Good

\* The operators of the instance are those of the module.
LEMMA SameSplit == \A s, sep : Lines!Split(s, sep) = Split(s, sep)
  BY DEF Lines!Split, Split, Lines!SplitMore, SplitMore
LEMMA SameSelect == \A s, S : Lines!Select(s, S) = Select(s, S)
  BY DEF Lines!Select, Select

\* What parsing makes of a line.
ParsedRecord(l) == [k \in DOMAIN Split(l, "\t") |-> Lines!Taken(Split(l, "\t")[k]).out]
GoodLine(l) ==
  /\ Len(Split(l, "\t")) = RecordFields
  /\ \A k \in DOMAIN Split(l, "\t") : Lines!Unescape(Split(l, "\t")[k]).ok
  /\ Lines!Validates(ParsedRecord(l))

\* The lines that parsing looks at, and what it returns of them.
PickedLines(text) ==
  LET all == Lines!Lines(text)
  IN Select(all, {line \in Lines!ToSet(all) : ~Lines!IsComment(line)})

ParsesBy(text, ls) ==
  /\ Lines!Parse(text).ok <=> \A i \in DOMAIN ls : GoodLine(ls[i])
  /\ Lines!Parse(text).ok => Lines!Parse(text).records = [i \in DOMAIN ls |-> ParsedRecord(ls[i])]
LEMMA ParseIs ==
  ASSUME NEW text PROVE ParsesBy(text, PickedLines(text))
<1> DEFINE ls == PickedLines(text)
<1> DEFINE fields == [i \in DOMAIN ls |-> [k \in DOMAIN Split(ls[i], "\t") |-> Lines!Unescape(Split(ls[i], "\t")[k])]]
<1> DEFINE recs == [i \in DOMAIN fields |-> [k \in DOMAIN fields[i] |-> fields[i][k].text]]
<1> DEFINE ok == \A i \in DOMAIN ls :
                   /\ Len(fields[i]) = RecordFields
                   /\ \A k \in DOMAIN fields[i] : fields[i][k].ok
                   /\ Lines!Validates(recs[i])
<1>1. Lines!Parse(text) = [ok |-> ok, records |-> IF ok THEN recs ELSE <<>>]
  BY SameSplit, SameSelect, Zenon DEF Lines!Parse, PickedLines
<1> HIDE DEF ls
<1>2. DOMAIN fields = DOMAIN ls /\ \A i \in DOMAIN ls :
        fields[i] = [k \in DOMAIN Split(ls[i], "\t") |-> Lines!Unescape(Split(ls[i], "\t")[k])]
  OBVIOUS
<1>3. DOMAIN recs = DOMAIN ls /\ \A i \in DOMAIN ls : recs[i] = [k \in DOMAIN fields[i] |-> fields[i][k].text]
  BY <1>2
<1> HIDE DEF fields, recs
<1>4. \A i \in DOMAIN ls : recs[i] = ParsedRecord(ls[i])
  BY <1>2, <1>3 DEF ParsedRecord, Lines!Unescape
<1>5. \A i \in DOMAIN ls : Len(fields[i]) = Len(Split(ls[i], "\t"))
  BY <1>2
<1>6. ok <=> \A i \in DOMAIN ls : GoodLine(ls[i])
  BY <1>2, <1>4, <1>5 DEF GoodLine
<1>7. recs = [i \in DOMAIN ls |-> ParsedRecord(ls[i])]
  <2>1. recs = [i \in DOMAIN recs |-> recs[i]]
    BY DEF recs
  <2> QED BY <1>3, <1>4, <2>1, Zenon
<1>8. Lines!Parse(text).ok = ok /\ (ok => Lines!Parse(text).records = recs)
  <2> HIDE DEF ok
  <2> QED BY <1>1
<1> HIDE DEF ok
<1> QED BY <1>6, <1>7, <1>8, Zenon DEF ParsesBy, ls

\* A line that was written is read as it was.
LEMMA WrittenIsRead ==
  ASSUME NEW r \in LineRecords
  PROVE /\ Split(LineText(r), "\t") = EscapedTexts(r)
        /\ ParsedRecord(LineText(r)) = r
        /\ Lines!Validates(r) => GoodLine(LineText(r))
<1>1. Split(LineText(r), "\t") = EscapedTexts(r)
  <2> DEFINE e == EscapedTexts(r)
  <2>1. e \in Seq(Seq(Characters)) /\ e # <<>> /\ \A k \in 1..Len(e) : FreeOf(e[k], "\t")
    BY EscapedTextsType
  <2> HIDE DEF e
  <2>2. Split(Lines!Join(e), "\t") = e
    BY <2>1, SplitJoined
  <2> QED BY <2>2 DEF LineText, e
<1>2. /\ Len(EscapedTexts(r)) = RecordFields /\ DOMAIN EscapedTexts(r) = 1..RecordFields
      /\ \A k \in 1..RecordFields : EscapedTexts(r)[k] = Lines!Escape(r[k])
      /\ DOMAIN r = 1..RecordFields /\ \A k \in 1..RecordFields : r[k] \in Seq(Characters)
  BY RecordIsSeq, EscapedTextsType DEF EscapedTexts
<1>3. \A k \in 1..RecordFields : Lines!Taken(EscapedTexts(r)[k]) = Whole(r[k])
  BY <1>2, UnescapeEscaped, Zenon
<1>4. ParsedRecord(LineText(r)) = r
  <2>1. ParsedRecord(LineText(r)) = [k \in 1..RecordFields |-> r[k]]
    <3>1. \A k \in 1..RecordFields : Lines!Taken(EscapedTexts(r)[k]).out = r[k]
      <4>1. \A x : Whole(x).out = x
        BY DEF Whole
      <4> QED BY <1>3, <4>1, Zenon
    <3> QED BY <1>1, <1>2, <3>1, Zenon DEF ParsedRecord
  <2> QED BY <1>2, <2>1 DEF LineRecords
<1>5. \A k \in 1..RecordFields : Lines!Unescape(EscapedTexts(r)[k]).ok
  <2>1. \A x : Whole(x).ok /\ ~Whole(x).pending
    BY DEF Whole
  <2>2. \A x : Lines!Unescape(x).ok <=> Lines!Taken(x).ok /\ ~Lines!Taken(x).pending
    BY DEF Lines!Unescape
  <2> QED BY <1>3, <2>1, <2>2, Zenon
<1> QED BY <1>1, <1>2, <1>4, <1>5, Zenon DEF GoodLine

\* The trimmed line is that of a record with the last text trimmed.
TrimmedLast(r) == [r EXCEPT ![RecordFields] = Lines!Trimmed(r[RecordFields])]
TrimsLine(r) == Lines!Trimmed(LineText(r)) = LineText(TrimmedLast(r))
LEMMA TrimmedLine ==
  ASSUME NEW r \in LineRecords
  PROVE TrimmedLast(r) \in LineRecords /\ TrimsLine(r)
<1> DEFINE F == RecordFields
<1> DEFINE q == TrimmedLast(r)
<1> DEFINE last == Lines!Trimmed(r[F])
<1>1. F \in Nat \ {0} /\ DOMAIN r = 1..F /\ (\A k \in 1..F : r[k] \in Seq(Characters)) /\ F \in 1..F
  <2>1. F \in Nat \ {0} /\ DOMAIN r = 1..F /\ (\A k \in 1..F : r[k] \in Seq(Characters))
    BY RecordIsSeq
  <2> QED BY <2>1
<1>2. last \in Seq(Characters)
  BY <1>1, TrimmedType
<1>3. q \in LineRecords /\ \A k \in 1..F : q[k] = IF k = F THEN last ELSE r[k]
  <2> HIDE DEF last
  <2> DEFINE T == Seq(Characters)
  <2>1. q = [r EXCEPT ![F] = last] /\ r \in [1..F -> T] /\ last \in T
    BY <1>2 DEF TrimmedLast, LineRecords, last
  <2> HIDE DEF T, q
  <2> QED BY <2>1, <1>1 DEF LineRecords, T
<1> HIDE DEF q, last
<1> DEFINE e == EscapedTexts(r)
<1> DEFINE d == EscapedTexts(q)
<1>4. e \in Seq(Seq(Characters)) /\ Len(e) = F /\ e # <<>> /\ \A k \in 1..F : e[k] = Lines!Escape(r[k])
  BY EscapedTextsType
<1>5. d \in Seq(Seq(Characters)) /\ Len(d) = F /\ \A k \in 1..F : d[k] = Lines!Escape(q[k])
  BY <1>3, EscapedTextsType
<1> HIDE DEF e, d
<1> DEFINE T == Seq(Characters)
<1> HIDE DEF T
<1>6. PICK us \in Seq(T), u \in T : e = Append(us, u)
  <2>1. e \in Seq(T) /\ e # <<>>
    BY <1>4 DEF T
  <2> QED BY <2>1, SequenceEmptyOrAppend
<1>7. Len(us) = F - 1 /\ u = e[F] /\ \A k \in 1..F - 1 : us[k] = e[k]
  <2>1. Len(e) = Len(us) + 1 /\ Len(us) \in Nat /\ e[Len(us) + 1] = u /\ \A k \in 1..Len(us) : e[k] = us[k]
    BY <1>6, AppendProperties
  <2>2. Len(us) = F - 1 /\ Len(us) + 1 = F
    BY <1>1, <1>4, <2>1
  <2> QED BY <2>1, <2>2
<1>8. d = Append(us, Lines!Escape(last))
  <2>1. Len(d) = Len(us) + 1 /\ d \in Seq(T)
    BY <1>1, <1>5, <1>7 DEF T
  <2>2. \A k \in 1..Len(us) : d[k] = us[k]
    <3>1. \A k \in 1..F - 1 : k \in 1..F /\ k # F
      BY <1>1
    <3>2. \A k \in 1..F - 1 : d[k] = Lines!Escape(r[k]) /\ e[k] = Lines!Escape(r[k])
      BY <1>3, <1>4, <1>5, <3>1
    <3> QED BY <1>7, <3>2
  <2>3. d[Len(us) + 1] = Lines!Escape(last)
    <3>1. Len(us) + 1 = F
      BY <1>1, <1>7
    <3> QED BY <1>1, <1>3, <1>5, <3>1
  <2>4. d = Append(us, d[Len(us) + 1])
    BY <2>1, <2>2, IsAppend
  <2> QED BY <2>3, <2>4, Zenon
<1>9. Lines!Trimmed(Lines!Join(Append(us, u))) = Lines!Join(Append(us, Lines!Trimmed(u)))
  <2>1. TrimsJoined(us, u)
    BY <1>6, TrimmedJoined DEF T
  <2> QED BY <2>1, Zenon DEF TrimsJoined
<1>10. Lines!Trimmed(u) = Lines!Escape(last)
  <2>1. TrimsEscaped(r[F])
    BY <1>1, TrimmedEscaped
  <2>2. u = Lines!Escape(r[F])
    BY <1>1, <1>4, <1>7
  <2> QED BY <2>1, <2>2, Zenon DEF TrimsEscaped, last
<1>11. Lines!Trimmed(Lines!Join(e)) = Lines!Join(d)
  BY <1>6, <1>8, <1>9, <1>10, Zenon
<1> QED BY <1>3, <1>11, Zenon DEF TrimsLine, LineText, e, d, q

\* A first text that is not blank is not blank when it is trimmed.
LEMMA TrimmedValidates ==
  ASSUME NEW r \in LineRecords, Lines!Validates(r)
  PROVE Lines!Validates(TrimmedLast(r))
<1> DEFINE F == RecordFields
<1> DEFINE q == TrimmedLast(r)
<1>1. F \in Nat \ {0} /\ DOMAIN r = 1..F /\ (\A k \in 1..F : r[k] \in Seq(Characters)) /\ 1 \in 1..F
  <2>1. F \in Nat \ {0} /\ DOMAIN r = 1..F /\ (\A k \in 1..F : r[k] \in Seq(Characters))
    BY RecordIsSeq
  <2> QED BY <2>1
<1>2. q[1] = IF F = 1 THEN Lines!Trimmed(r[1]) ELSE r[1]
  BY <1>1 DEF TrimmedLast
<1> DEFINE t == r[1]
<1>3. t \in Seq(Characters) /\ ~Lines!IsBlank(t)
  BY <1>1 DEF Lines!Validates
<1> HIDE DEF t
<1>4. ~Lines!IsBlank(Lines!Trimmed(t))
  <2>1. PICK i \in DOMAIN t : t[i] \notin Lines!Blanks
    BY <1>3 DEF Lines!IsBlank
  <2>2. t # <<>>
    BY <2>1
  <2>3. PICK u \in Seq(Characters), c \in Characters : t = Append(u, c)
    BY <1>3, <2>2, SequenceEmptyOrAppend
  <2>4. Lines!Trimmed(t) = IF c = "\r" THEN u ELSE t
    <3>1. TrimmedIs(Append(u, c), IF c = "\r" THEN u ELSE Append(u, c))
      BY TrimmedOfAppend
    <3> QED BY <2>3, <3>1, Zenon DEF TrimmedIs
  <2>5. CASE c = "\r"
    <3>1. Len(t) = Len(u) + 1 /\ Len(u) \in Nat /\ t[Len(u) + 1] = c /\ \A k \in 1..Len(u) : t[k] = u[k]
      BY <2>3, AppendProperties
    <3>2. i \in 1..Len(t)
      BY <1>3
    <3>3. i # Len(u) + 1
      BY <2>1, <2>5, <3>1 DEF Lines!Blanks
    <3>4. i \in 1..Len(u) /\ u[i] = t[i]
      BY <3>1, <3>2, <3>3
    <3>5. i \in DOMAIN u
      BY <3>4
    <3>6. ~Lines!IsBlank(u)
      BY <2>1, <3>4, <3>5 DEF Lines!IsBlank
    <3> QED BY <2>4, <2>5, <3>6
  <2>6. CASE c # "\r"
    BY <1>3, <2>4, <2>6
  <2> QED BY <2>5, <2>6
<1> QED BY <1>2, <1>3, <1>4 DEF Lines!Validates, t

\* A record that the format can hold: trimming leaves its line alone, and it
\* is no comment.
LEMMA HeldLine ==
  ASSUME NEW r \in LineRecords, Lines!Validates(r), Lines!Holds(r)
  PROVE Lines!Trimmed(LineText(r)) = LineText(r) /\ ~Lines!IsComment(LineText(r))
<1> DEFINE F == RecordFields
<1>1. F \in Nat \ {0} /\ DOMAIN r = 1..F /\ (\A k \in 1..F : r[k] \in Seq(Characters)) /\ 1 \in 1..F /\ F \in 1..F
  <2>1. F \in Nat \ {0} /\ DOMAIN r = 1..F /\ (\A k \in 1..F : r[k] \in Seq(Characters))
    BY RecordIsSeq
  <2> QED BY <2>1
<1>2. Lines!Trimmed(r[F]) = r[F]
  BY DEF Lines!Holds, Lines!Trimmed
<1>3. TrimmedLast(r) = r
  <2>1. TrimmedLast(r) = [r EXCEPT ![F] = r[F]]
    BY <1>2, Zenon DEF TrimmedLast
  <2> QED BY <1>1, <2>1 DEF LineRecords
<1>4. Lines!Trimmed(LineText(r)) = LineText(r)
  <2>1. TrimsLine(r)
    BY TrimmedLine
  <2> QED BY <1>3, <2>1, Zenon DEF TrimsLine
<1> DEFINE e == EscapedTexts(r)
<1> DEFINE x == e[1]
<1>5. e \in Seq(Seq(Characters)) /\ e # <<>> /\ x = Lines!Escape(r[1]) /\ x \in Seq(Characters)
  <2>1. e \in Seq(Seq(Characters)) /\ e # <<>> /\ x = Lines!Escape(r[1])
    BY <1>1, EscapedTextsType
  <2> QED BY <1>1, <2>1, EscapeType
<1> HIDE DEF e
<1>6. PICK w \in Seq(Characters) : LineText(r) = x \o w
  <2>1. Continues(Lines!Join(e), e[1])
    BY <1>5, JoinStarts
  <2> QED BY <2>1 DEF Continues, LineText, e
<1>7. StartsAlike(r[1])
  BY <1>1, EscapeStartsAlike
<1>8. r[1] # <<>> /\ ~Lines!IsBlank(r[1]) /\ r[1][1] # "#"
  <2>1. ~Lines!IsBlank(r[1]) /\ r[1][1] # "#"
    BY DEF Lines!Holds, Lines!Validates
  <2>2. Lines!IsBlank(<<>>)
    BY DEF Lines!IsBlank
  <2> QED BY <2>1, <2>2, Zenon
<1>9. x # <<>> /\ x[1] # "#" /\ ~Lines!IsBlank(x)
  <2> HIDE DEF x
  <2> QED BY <1>5, <1>7, <1>8, Zenon DEF StartsAlike
<1> HIDE DEF x
<1>10. (x \o w)[1] = x[1]
  BY <1>5, <1>9, BeginsAlike
<1>11. ~Lines!IsBlank(x \o w)
  BY <1>5, <1>9, BlankParts
<1>12. ~Lines!IsComment(x \o w)
  BY <1>9, <1>10, <1>11, Zenon DEF Lines!IsComment
<1> QED BY <1>4, <1>6, <1>12, Zenon

\* Each line trimmed.
TrimmedAll(ps) == [i \in DOMAIN ps |-> Lines!Trimmed(ps[i])]

LEMMA TrimmedAllType ==
  ASSUME NEW ps \in Seq(Seq(Characters))
  PROVE /\ TrimmedAll(ps) \in Seq(Seq(Characters)) /\ Len(TrimmedAll(ps)) = Len(ps)
        /\ \A i \in 1..Len(ps) : TrimmedAll(ps)[i] = Lines!Trimmed(ps[i])
<1> DEFINE T == Seq(Characters)
<1> HIDE DEF T
<1>1. ps \in Seq(T) /\ Len(ps) \in Nat /\ DOMAIN ps = 1..Len(ps) /\ \A i \in 1..Len(ps) : ps[i] \in T
  BY DEF T
<1>2. \A i \in 1..Len(ps) : Lines!Trimmed(ps[i]) \in T
  BY <1>1, TrimmedType DEF T
<1>3. TrimmedAll(ps) \in [1..Len(ps) -> T] /\ \A i \in 1..Len(ps) : TrimmedAll(ps)[i] = Lines!Trimmed(ps[i])
  BY <1>1, <1>2 DEF TrimmedAll
<1>4. TrimmedAll(ps) \in Seq(T) /\ Len(TrimmedAll(ps)) = Len(ps)
  BY <1>1, <1>3, ByPositions
<1> QED BY <1>3, <1>4 DEF T

\* The lines of a text, from what it is split into.
LinesAre(text, ps, p) == Lines!Lines(text) = IF p = <<>> THEN TrimmedAll(ps) ELSE Append(TrimmedAll(ps), p)
LEMMA LinesOfText ==
  ASSUME NEW text, NEW ps \in Seq(Seq(Characters)), NEW p \in Seq(Characters),
         SplitsInto(text, "\n", ps, p)
  PROVE LinesAre(text, ps, p)
<1> DEFINE T == Seq(Characters)
<1> HIDE DEF T
<1> DEFINE n == Len(ps)
<1> DEFINE parts == Append(ps, p)
<1>1. parts \in Seq(T) /\ Len(parts) = n + 1 /\ n \in Nat /\ parts[n + 1] = p /\ \A i \in 1..n : parts[i] = ps[i]
  BY AppendProperties DEF T
<1> HIDE DEF parts
<1> DEFINE lines == [i \in DOMAIN parts |-> IF i < Len(parts) THEN Lines!Trimmed(parts[i]) ELSE parts[i]]
<1> DEFINE ts == TrimmedAll(ps)
<1>2. ts \in Seq(T) /\ Len(ts) = n /\ \A i \in 1..n : ts[i] = Lines!Trimmed(ps[i])
  BY TrimmedAllType DEF T
<1>3. DOMAIN parts = 1..n + 1 /\ p \in T
  BY <1>1 DEF T
<1>4. lines \in Seq(T) /\ Len(lines) = n + 1 /\ lines[n + 1] = p /\ \A i \in 1..n : lines[i] = ts[i]
  <2>1. n + 1 \in 1..n + 1 /\ \A i \in 1..n : i \in 1..n + 1 /\ i < n + 1
    BY <1>1
  <2>2. lines[n + 1] = p /\ \A i \in 1..n : lines[i] = ts[i]
    BY <1>1, <1>2, <1>3, <2>1
  <2>3. \A i \in 1..n : ts[i] \in T
    BY <1>2, ElementOfSeq
  <2>4. \A i \in 1..n + 1 : i = n + 1 \/ i \in 1..n
    BY <1>1
  <2>5. \A i \in 1..n + 1 : lines[i] \in T
    BY <1>3, <2>2, <2>3, <2>4, Zenon
  <2>6. lines \in [1..n + 1 -> T]
    BY <1>3, <2>5
  <2> HIDE DEF lines, ts
  <2>7. lines \in Seq(T) /\ Len(lines) = n + 1
    <3>1. n + 1 \in Nat
      BY <1>1
    <3> QED BY <2>6, <3>1, ByPositions
  <2> QED BY <2>2, <2>7
<1>5. lines = Append(ts, p)
  <2> HIDE DEF lines, ts
  <2>1. \A i \in 1..Len(ts) : lines[i] = ts[i]
    BY <1>2, <1>4
  <2>2. lines = Append(ts, lines[Len(ts) + 1])
    BY <1>2, <1>4, <2>1, IsAppend
  <2> QED BY <1>2, <1>4, <2>2
<1>6. Lines!Front(lines) = ts
  <2> HIDE DEF lines, ts
  <2>1. FrontIs(Append(ts, p), ts)
    BY <1>2, <1>3, FrontOfAppend
  <2> QED BY <1>5, <2>1, Zenon DEF FrontIs
<1>7. Lines!Last(parts) = p
  BY <1>1 DEF Lines!Last
<1>8. Lines!Lines(text) = IF Lines!Last(parts) = <<>> THEN Lines!Front(lines) ELSE lines
  BY SameSplit, Zenon DEF Lines!Lines, SplitsInto, parts
<1> HIDE DEF lines, ts
<1> QED BY <1>5, <1>6, <1>7, <1>8, Zenon DEF LinesAre, ts

\* Of the lines that were written all but the first are of records.
LEMMA WrittenLinesAre ==
  ASSUME NEW rs \in Seq(LineRecords)
  PROVE /\ WrittenLines(rs) \in Seq(Seq(Characters)) /\ Len(WrittenLines(rs)) = Len(rs) + 1 /\ Len(rs) \in Nat
        /\ WrittenLines(rs)[1] = <<"#">> /\ <<"#">> \in Seq(Characters)
        /\ \A i \in 1..Len(rs) : WrittenLines(rs)[i + 1] = LineText(rs[i]) /\ rs[i] \in LineRecords
<1> DEFINE T == Seq(Characters)
<1> DEFINE h == <<<<"#">>>>
<1> DEFINE ts == TextsOf(rs)
<1>1. <<"#">> \in T
  <2>1. "#" \in Characters
    BY DEF Characters
  <2> QED BY <2>1
<1> HIDE DEF T
<1>2. h \in Seq(T) /\ Len(h) = 1 /\ h[1] = <<"#">>
  BY <1>1
<1>3. ts \in Seq(T) /\ Len(ts) = Len(rs) /\ (\A i \in 1..Len(rs) : ts[i] = LineText(rs[i])) /\ Len(rs) \in Nat
  BY TextsOfMore DEF T
<1> HIDE DEF h, ts
<1> DEFINE u == h \o ts
<1>4. /\ u \in Seq(T) /\ Len(u) = Len(h) + Len(ts)
      /\ \A i \in 1..Len(h) + Len(ts) : u[i] = IF i <= Len(h) THEN h[i] ELSE ts[i - Len(h)]
  <2>1. ConcatenatesTo(h, ts, u, T)
    BY <1>2, <1>3, Concatenated
  <2> QED BY <2>1, Zenon DEF ConcatenatesTo
<1> HIDE DEF u
<1>5. u[1] = <<"#">>
  BY <1>2, <1>3, <1>4
<1>6. ASSUME NEW i \in 1..Len(rs) PROVE u[i + 1] = LineText(rs[i])
  <2>1. i + 1 \in 1..Len(h) + Len(ts) /\ ~(i + 1 <= Len(h)) /\ (i + 1) - Len(h) = i
    BY <1>2, <1>3
  <2> QED BY <1>3, <1>4, <2>1
<1>7. \A i \in 1..Len(rs) : rs[i] \in LineRecords
  BY ElementOfSeq
<1>8. u \in Seq(T) /\ Len(u) = Len(rs) + 1
  BY <1>2, <1>3, <1>4
<1> QED BY <1>1, <1>3, <1>5, <1>6, <1>7, <1>8 DEF u, h, ts, T, WrittenLines

\* The records that the format can hold.
HeldRecords == {r \in LineRecords : Lines!Validates(r) /\ Lines!Holds(r)}

LEMMA HeldAreRecords == Seq(HeldRecords) \subseteq Seq(LineRecords)
  BY SeqMonotonic DEF HeldRecords

\* Trimming leaves their lines alone, and all of them are picked.
LEMMA HeldTrimmed ==
  ASSUME NEW rs \in Seq(HeldRecords) PROVE TrimmedAll(WrittenLines(rs)) = WrittenLines(rs)
<1> DEFINE T == Seq(Characters)
<1> DEFINE ws == WrittenLines(rs)
<1>1. /\ ws \in Seq(T) /\ Len(ws) = Len(rs) + 1 /\ Len(rs) \in Nat /\ ws[1] = <<"#">>
      /\ \A i \in 1..Len(rs) : ws[i + 1] = LineText(rs[i])
  BY HeldAreRecords, WrittenLinesAre
<1>2. \A i \in 1..Len(rs) : rs[i] \in HeldRecords
  BY ElementOfSeq
<1> HIDE DEF ws
<1> DEFINE ts == TrimmedAll(ws)
<1>3. ts \in Seq(T) /\ Len(ts) = Len(ws) /\ \A i \in 1..Len(ws) : ts[i] = Lines!Trimmed(ws[i])
  BY <1>1, TrimmedAllType
<1> HIDE DEF T, ts
<1>4. ASSUME NEW i \in 1..Len(ws) PROVE ts[i] = ws[i]
  <2>1. CASE i = 1
    <3>1. Lines!Trimmed(<<"#">>) = <<"#">>
      BY DEF Lines!Trimmed, Lines!Last
    <3> QED BY <1>1, <1>3, <2>1, <3>1
  <2>2. CASE i # 1
    <3>1. i - 1 \in 1..Len(rs) /\ (i - 1) + 1 = i
      BY <1>1, <2>2
    <3>2. Lines!Trimmed(LineText(rs[i - 1])) = LineText(rs[i - 1])
      BY <1>2, <3>1, HeldLine DEF HeldRecords
    <3>3. ws[i] = LineText(rs[i - 1])
      BY <1>1, <3>1, Zenon
    <3> QED BY <1>3, <3>2, <3>3, Zenon
  <2> QED BY <2>1, <2>2
<1>5. ts = ws
  BY <1>1, <1>3, <1>4, SeqEqual
<1> QED BY <1>5 DEF ts, ws

PickIs(all, S, s) == Select(all, S) = s
LEMMA HeldPicked ==
  ASSUME NEW rs \in Seq(HeldRecords), NEW S, <<"#">> \notin S, \A i \in 1..Len(rs) : LineText(rs[i]) \in S
  PROVE PickIs(WrittenLines(rs), S, TextsOf(rs))
<1> DEFINE T == Seq(Characters)
<1> DEFINE ts == TextsOf(rs)
<1>1. ts \in Seq(T) /\ Len(ts) = Len(rs) /\ \A i \in 1..Len(rs) : ts[i] = LineText(rs[i])
  BY HeldAreRecords, TextsOfMore
<1>2. <<"#">> \in T
  BY HeldAreRecords, WrittenLinesAre
<1> HIDE DEF T, ts
<1>3. \A i \in 1..Len(ts) : ts[i] \in S
  BY <1>1
<1>4. SelectsRest(<<"#">>, ts, S)
  BY <1>1, <1>2, <1>3, SelectAllButFirst
<1> QED BY <1>4, Zenon DEF SelectsRest, PickIs, WrittenLines, ts

\* Which lines of a text are picked, when they are those of records that the
\* format can hold, and perhaps one more.
LEMMA PickedAre ==
  ASSUME NEW text, NEW rs \in Seq(HeldRecords), NEW p \in Seq(Characters),
         LinesAre(text, WrittenLines(rs), p)
  PROVE \/ PickedLines(text) = TextsOf(rs)
        \/ p # <<>> /\ PickedLines(text) = Append(TextsOf(rs), p)
<1> DEFINE T == Seq(Characters)
<1> DEFINE ws == WrittenLines(rs)
<1> DEFINE all == Lines!Lines(text)
<1> DEFINE S == {line \in Lines!ToSet(all) : ~Lines!IsComment(line)}
<1>1. /\ ws \in Seq(T) /\ Len(ws) = Len(rs) + 1 /\ Len(rs) \in Nat /\ ws[1] = <<"#">>
      /\ \A i \in 1..Len(rs) : ws[i + 1] = LineText(rs[i])
  BY HeldAreRecords, WrittenLinesAre
<1>2. \A i \in 1..Len(rs) : ~Lines!IsComment(LineText(rs[i]))
  <2>1. \A i \in 1..Len(rs) : rs[i] \in HeldRecords
    BY ElementOfSeq
  <2> QED BY <2>1, HeldLine DEF HeldRecords
<1>3. all = IF p = <<>> THEN ws ELSE Append(ws, p)
  BY HeldTrimmed, Zenon DEF LinesAre
<1> HIDE DEF ws, all, T
<1>4. DOMAIN ws \subseteq DOMAIN all /\ \A i \in DOMAIN ws : all[i] = ws[i]
  <2>1. CASE p = <<>>
    BY <1>3, <2>1
  <2>2. CASE p # <<>>
    <3>1. p \in T
      BY DEF T
    <3>2. Append(ws, p) \in Seq(T) /\ Len(Append(ws, p)) = Len(ws) + 1 /\ Len(ws) \in Nat
          /\ \A i \in 1..Len(ws) : Append(ws, p)[i] = ws[i]
      BY <1>1, <3>1, AppendProperties
    <3>3. all = Append(ws, p)
      BY <1>3, <2>2
    <3>4. all \in Seq(T) /\ Len(all) = Len(ws) + 1 /\ \A i \in 1..Len(ws) : all[i] = ws[i]
      BY <3>2, <3>3, Zenon
    <3> QED BY <1>1, <3>2, <3>4
  <2> QED BY <2>1, <2>2
<1>5. \A i \in 1..Len(rs) : LineText(rs[i]) \in S
  <2>1. \A i \in 1..Len(rs) : i + 1 \in DOMAIN ws
    BY <1>1
  <2>2. \A i \in 1..Len(rs) : i + 1 \in DOMAIN all /\ all[i + 1] = LineText(rs[i])
    BY <1>1, <1>4, <2>1
  <2> QED BY <1>2, <2>2 DEF Lines!ToSet
<1>6. <<"#">> \notin S
  BY DEF Lines!IsComment
<1> HIDE DEF S
<1>7. Select(ws, S) = TextsOf(rs)
  <2>1. PickIs(WrittenLines(rs), S, TextsOf(rs))
    BY <1>5, <1>6, HeldPicked
  <2> QED BY <2>1, Zenon DEF PickIs, ws
<1>8. PickedLines(text) = Select(all, S)
  BY Zenon DEF PickedLines, all, S
<1>9. CASE p = <<>>
  BY <1>3, <1>7, <1>8, <1>9, Zenon
<1>10. CASE p # <<>>
  <2>1. p \in T
    BY DEF T
  <2>2. Select(Append(ws, p), S) = PickMore(Select(ws, S), p, S)
    BY <1>1, <2>1, SelectOfMore
  <2> QED BY <1>3, <1>7, <1>8, <1>10, <2>2, Zenon DEF PickMore
<1> QED BY <1>9, <1>10

\* The records that are written.
ValidRecords == {r \in LineRecords : Lines!Validates(r)}

\* A file that is whole is read, and gives the records back that the format
\* can hold.
LEMMA WholeIsRead ==
  ASSUME NEW rs \in Seq(ValidRecords)
  PROVE Lines!Parse(Lines!Render(rs)).ok
<1> DEFINE T == Seq(Characters)
<1> DEFINE ws == WrittenLines(rs)
<1> DEFINE text == Lines!Render(rs)
<1>0. rs \in Seq(LineRecords) /\ \A i \in 1..Len(rs) : rs[i] \in ValidRecords
  <2>1. rs \in Seq(LineRecords)
    BY SeqMonotonic DEF ValidRecords
  <2> QED BY <2>1, ElementOfSeq
<1>1. /\ ws \in Seq(T) /\ Len(ws) = Len(rs) + 1 /\ Len(rs) \in Nat /\ ws[1] = <<"#">>
      /\ \A i \in 1..Len(rs) : ws[i + 1] = LineText(rs[i])
  BY <1>0, WrittenLinesAre
<1>2. SplitsInto(text, "\n", ws, <<>>) /\ <<>> \in T
  BY <1>0, SplitRendered, EmptySeq
<1> HIDE DEF ws, text
<1>3. LinesAre(text, ws, <<>>)
  BY <1>1, <1>2, LinesOfText
<1> DEFINE all == Lines!Lines(text)
<1> DEFINE S == {line \in Lines!ToSet(all) : ~Lines!IsComment(line)}
<1>4. all = TrimmedAll(ws)
  BY <1>3, Zenon DEF LinesAre
<1>5. all \in Seq(T) /\ Len(all) = Len(ws) /\ \A i \in 1..Len(ws) : all[i] = Lines!Trimmed(ws[i])
  BY <1>1, <1>4, TrimmedAllType
<1> HIDE DEF all, T
<1>6. ASSUME NEW line \in S PROVE GoodLine(line)
  <2>1. PICK i \in DOMAIN all : line = all[i]
    BY DEF Lines!ToSet
  <2>2. i \in 1..Len(ws)
    BY <1>5
  <2>3. CASE i = 1
    <3>1. Lines!Trimmed(<<"#">>) = <<"#">>
      BY DEF Lines!Trimmed, Lines!Last
    <3>2. line = <<"#">>
      BY <1>1, <1>5, <2>1, <2>2, <2>3, <3>1
    <3> QED BY <3>2 DEF Lines!IsComment
  <2>4. CASE i # 1
    <3>1. i - 1 \in 1..Len(rs) /\ (i - 1) + 1 = i
      BY <1>1, <2>2, <2>4
    <3> DEFINE r == rs[i - 1]
    <3>2. r \in LineRecords /\ Lines!Validates(r)
      BY <1>0, <3>1 DEF ValidRecords
    <3>3. ws[i] = LineText(r)
      BY <1>1, <3>1, Zenon
    <3> HIDE DEF r
    <3>4. TrimsLine(r) /\ TrimmedLast(r) \in LineRecords /\ Lines!Validates(TrimmedLast(r))
      BY <3>2, TrimmedLine, TrimmedValidates
    <3>5. GoodLine(LineText(TrimmedLast(r)))
      BY <3>4, WrittenIsRead
    <3>6. line = Lines!Trimmed(LineText(r))
      BY <1>5, <2>1, <2>2, <3>3, Zenon
    <3> QED BY <3>4, <3>5, <3>6, Zenon DEF TrimsLine
  <2> QED BY <2>3, <2>4
<1> DEFINE ls == PickedLines(text)
<1>7. ls = Select(all, S)
  BY Zenon DEF PickedLines, all
<1> HIDE DEF S, ls
<1>8. ls \in Seq(T \cap S)
  BY <1>5, <1>7, SelectPicks
<1>9. \A i \in DOMAIN ls : GoodLine(ls[i])
  <2>1. \A i \in DOMAIN ls : ls[i] \in S
    BY <1>8
  <2> QED BY <1>6, <2>1
<1>10. ParsesBy(text, ls)
  BY ParseIs DEF ls
<1> QED BY <1>9, <1>10, Zenon DEF ParsesBy, text

\* Which lines are picked of a file that was cut: those of the first records,
\* and perhaps the beginning of the next one.
CutLines(rs, k, ls) ==
  \/ ls = TextsOf(FirstOf(rs, k))
  \/ /\ k < Len(rs)
     /\ \E p \in Seq(Characters) :
          ls = Append(TextsOf(FirstOf(rs, k)), p) /\ Continues(LineText(rs[k + 1]), p)

LEMMA CutPicks ==
  ASSUME NEW rs \in Seq(HeldRecords), NEW text \in Seq(Characters), NEW rest \in Seq(Characters),
         Lines!Render(rs) = text \o rest
  PROVE \E k \in 0..Len(rs) : CutLines(rs, k, PickedLines(text))
<1> DEFINE T == Seq(Characters)
<1> DEFINE ws == WrittenLines(rs)
<1> DEFINE m == Len(rs)
<1> DEFINE parts == Append(ws, <<>>)
<1>1. /\ ws \in Seq(T) /\ Len(ws) = m + 1 /\ m \in Nat /\ ws[1] = <<"#">> /\ <<"#">> \in T
      /\ \A i \in 1..m : ws[i + 1] = LineText(rs[i])
  BY HeldAreRecords, WrittenLinesAre
<1>2. PICK ps \in Seq(T), p \in T : SplitsInto(text, "\n", ps, p)
  BY SplitsIntoParts
<1>3. Split(text \o rest, "\n") = parts
  <2>1. SplitsInto(Lines!Render(rs), "\n", ws, <<>>)
    BY HeldAreRecords, SplitRendered
  <2> QED BY <2>1, Zenon DEF SplitsInto
<1> HIDE DEF ws
<1>4. parts \in Seq(T) /\ Len(parts) = m + 2 /\ parts[m + 2] = <<>> /\ \A i \in 1..m + 1 : parts[i] = ws[i]
  <2>1. <<>> \in T
    BY EmptySeq
  <2> HIDE DEF T
  <2>2. parts \in Seq(T) /\ Len(parts) = Len(ws) + 1 /\ parts[Len(ws) + 1] = <<>> /\ \A i \in 1..Len(ws) : parts[i] = ws[i]
    BY <1>1, <2>1, AppendProperties
  <2> HIDE DEF parts
  <2> QED BY <1>1, <2>2
<1> HIDE DEF parts
<1> DEFINE n == Len(ps)
<1>5. n \in Nat /\ n < m + 2 /\ (\A i \in 1..n : ps[i] = parts[i]) /\ Longer(parts[n + 1], p, Characters)
  <2>1. Prolongs(Split(text \o rest, "\n"), ps, p, Characters)
    BY <1>2, SplitGrows
  <2>2. Prolongs(parts, ps, p, Characters)
    BY <1>3, <2>1, Zenon
  <2> QED BY <1>4, <2>2 DEF Prolongs
<1>6. PICK v \in T : parts[n + 1] = p \o v
  BY <1>5 DEF Longer
<1>7. LinesAre(text, ps, p)
  BY <1>2, LinesOfText
<1> DEFINE all == Lines!Lines(text)
<1> DEFINE S == {line \in Lines!ToSet(all) : ~Lines!IsComment(line)}
<1> HIDE DEF T
<1>8. CASE n = 0
  <2>1. ps = <<>> /\ TrimmedAll(ps) = <<>>
    <3>1. ps = <<>>
      BY <1>2, <1>8, EmptySeq
    <3> QED BY <3>1 DEF TrimmedAll
  <2>2. all = IF p = <<>> THEN <<>> ELSE Append(<<>>, p)
    BY <1>7, <2>1, Zenon DEF LinesAre
  <2>3. p # <<>> => Lines!IsComment(p)
    <3> SUFFICES ASSUME p # <<>> PROVE Lines!IsComment(p)
      OBVIOUS
    <3>1. (p \o v)[1] = p[1]
      BY <1>2, <1>6, BeginsAlike DEF T
    <3>2. parts[n + 1] = <<"#">>
      BY <1>1, <1>4, <1>8
    <3>3. p[1] = <<"#">>[1]
      BY <1>6, <3>1, <3>2, Zenon
    <3> QED BY <3>3 DEF Lines!IsComment
  <2> HIDE DEF all
  <2>4. p \notin S \/ p = <<>>
    BY <2>3
  <2> HIDE DEF S
  <2>5. Select(all, S) = <<>>
    <3>1. CASE p = <<>>
      BY <2>2, <3>1, SelectOfNothing, Zenon
    <3>2. CASE p # <<>>
      <4>1. <<>> \in Seq(T)
        BY EmptySeq
      <4>2. Select(Append(<<>>, p), S) = PickMore(Select(<<>>, S), p, S)
        BY <1>2, <4>1, SelectOfMore
      <4>3. Select(Append(<<>>, p), S) = <<>>
        BY <2>4, <3>2, <4>2, SelectOfNothing, Zenon DEF PickMore
      <4> QED BY <2>2, <3>2, <4>3, Zenon
    <3> QED BY <3>1, <3>2
  <2>6. PickedLines(text) = <<>>
    BY <2>5, Zenon DEF PickedLines, all, S
  <2>7. TextsOf(FirstOf(rs, 0)) = <<>>
    <3>1. FirstOf(rs, 0) = <<>>
      BY SubSeqEmpty DEF FirstOf
    <3> QED BY <3>1 DEF TextsOf
  <2>8. 0 \in 0..m
    BY <1>1
  <2>9. CutLines(rs, 0, PickedLines(text))
    BY <2>6, <2>7, Zenon DEF CutLines
  <2> QED BY <2>8, <2>9
<1>9. CASE n # 0
  <2> DEFINE k == n - 1
  <2> DEFINE qs == FirstOf(rs, k)
  <2>1. k \in 0..m /\ k + 1 = n
    BY <1>1, <1>5, <1>9
  <2>2. qs \in Seq(HeldRecords) /\ Len(qs) = k /\ \A i \in 1..k : qs[i] = rs[i]
    BY <2>1, FirstOnes
  <2> HIDE DEF k, qs
  <2>3. ps = WrittenLines(qs)
    <3> DEFINE us == WrittenLines(qs)
    <3>1. /\ us \in Seq(T) /\ Len(us) = Len(qs) + 1 /\ us[1] = <<"#">>
          /\ \A i \in 1..Len(qs) : us[i + 1] = LineText(qs[i])
      BY <2>2, HeldAreRecords, WrittenLinesAre DEF T
    <3> HIDE DEF us
    <3>2. Len(us) = Len(ps)
      BY <2>1, <2>2, <3>1
    <3>3. ASSUME NEW i \in 1..Len(ps) PROVE ps[i] = us[i]
      <4>1. ps[i] = ws[i]
        <5>1. i \in 1..m + 1
          BY <1>5
        <5> QED BY <1>4, <1>5, <5>1
      <4>2. CASE i = 1
        BY <1>1, <3>1, <4>1, <4>2
      <4>3. CASE i # 1
        <5>1. i - 1 \in 1..k /\ i - 1 \in 1..m /\ (i - 1) + 1 = i
          BY <1>1, <2>1, <4>3
        <5>2. us[(i - 1) + 1] = LineText(qs[i - 1]) /\ ws[(i - 1) + 1] = LineText(rs[i - 1])
          BY <1>1, <2>2, <3>1, <5>1
        <5>3. us[i] = ws[i]
          BY <2>2, <5>1, <5>2, Zenon
        <5> QED BY <4>1, <5>3
      <4> QED BY <4>2, <4>3
    <3>4. ps = us
      BY <1>2, <3>1, <3>2, <3>3, SeqEqual
    <3> QED BY <3>4 DEF us
  <2>4. LinesAre(text, WrittenLines(qs), p)
    BY <1>7, <2>3, Zenon
  <2>5. \/ PickedLines(text) = TextsOf(qs)
        \/ p # <<>> /\ PickedLines(text) = Append(TextsOf(qs), p)
    BY <1>2, <2>2, <2>4, PickedAre DEF T
  <2>6. ASSUME p # <<>> PROVE k < m /\ Continues(LineText(rs[k + 1]), p)
    <3>1. parts[n + 1] # <<>>
      <4>1. p \o v # <<>>
        BY <1>2, <1>6, <2>6, BeginsAlike
      <4> QED BY <1>6, <4>1, Zenon
    <3>2. n # m + 1
      <4>1. (m + 1) + 1 = m + 2
        BY <1>1
      <4> QED BY <1>4, <3>1, <4>1
    <3>3. k < m /\ n \in 1..m /\ n + 1 \in 1..m + 1
      BY <1>1, <1>5, <1>9, <2>1, <3>2
    <3>4. parts[n + 1] = LineText(rs[k + 1])
      <4>1. parts[n + 1] = ws[n + 1] /\ ws[n + 1] = LineText(rs[n])
        BY <1>1, <1>4, <3>3
      <4> QED BY <2>1, <4>1
    <3>5. Continues(LineText(rs[k + 1]), p)
      BY <1>6, <3>4, Zenon DEF Continues, T
    <3> QED BY <3>3, <3>5
  <2>7. CutLines(rs, k, PickedLines(text))
    BY <1>2, <2>5, <2>6, Zenon DEF CutLines, qs, T
  <2> QED BY <2>1, <2>7
<1> QED BY <1>8, <1>9

\* The texts of records, read as they are.
LEMMA TextsAreRead ==
  ASSUME NEW rs \in Seq(LineRecords), NEW ls, ls = TextsOf(rs)
  PROVE [i \in DOMAIN ls |-> ParsedRecord(ls[i])] = rs
<1>1. ls \in Seq(Seq(Characters)) /\ Len(ls) = Len(rs) /\ \A i \in 1..Len(rs) : ls[i] = LineText(rs[i])
  BY TextsOfMore
<1>2. DOMAIN ls = 1..Len(rs) /\ DOMAIN rs = 1..Len(rs)
  BY <1>1
<1>3. \A i \in 1..Len(rs) : ParsedRecord(ls[i]) = rs[i]
  <2>1. \A i \in 1..Len(rs) : rs[i] \in LineRecords
    BY ElementOfSeq
  <2> QED BY <1>1, <2>1, WrittenIsRead
<1>4. rs = [i \in DOMAIN rs |-> rs[i]]
  OBVIOUS
<1> QED BY <1>2, <1>3, <1>4, Zenon

\* A whole file gives back the records that the format can hold.
LEMMA WholeGivesBack ==
  ASSUME NEW rs \in Seq(HeldRecords)
  PROVE Lines!Parse(Lines!Render(rs)).records = rs
<1> DEFINE text == Lines!Render(rs)
<1> DEFINE ls == PickedLines(text)
<1>0. rs \in Seq(LineRecords) /\ rs \in Seq(ValidRecords)
  BY HeldAreRecords, SeqMonotonic DEF HeldRecords, ValidRecords
<1>1. WrittenLines(rs) \in Seq(Seq(Characters)) /\ <<>> \in Seq(Characters)
  BY <1>0, WrittenLinesAre, EmptySeq
<1>2. LinesAre(text, WrittenLines(rs), <<>>)
  BY <1>0, <1>1, SplitRendered, LinesOfText
<1>3. ls = TextsOf(rs)
  BY <1>1, <1>2, PickedAre
<1>4. Lines!Parse(text).ok
  BY <1>0, WholeIsRead
<1> HIDE DEF ls, text
<1>5. ParsesBy(text, ls)
  BY ParseIs DEF ls
<1>6. [i \in DOMAIN ls |-> ParsedRecord(ls[i])] = rs
  BY <1>0, <1>3, TextsAreRead
<1> QED BY <1>4, <1>5, <1>6, Zenon DEF ParsesBy, text

\* What a text continues is a prefix of it.
LEMMA ContinuesIsPrefix ==
  ASSUME NEW s \in Seq(Characters), NEW t \in Seq(Characters), Continues(t, s)
  PROVE Lines!IsPrefix(s, t)
<1>1. PICK w \in Seq(Characters) : t = s \o w
  BY DEF Continues
<1>2. ConcatenatesTo(s, w, t, Characters)
  BY <1>1, Concatenated
<1>3. Len(s) \in Nat /\ Len(w) \in Nat /\ Len(t) = Len(s) + Len(w) /\ \A i \in 1..Len(s) : t[i] = s[i]
  <2>1. Len(s) \in Nat /\ Len(w) \in Nat
    OBVIOUS
  <2>2. \A i \in 1..Len(s) : i \in 1..Len(s) + Len(w) /\ i <= Len(s)
    BY <2>1
  <2> QED BY <1>2, <2>1, <2>2 DEF ConcatenatesTo
<1>4. Len(s) \in 0..Len(t) /\ Len(s) \in 0..Len(s)
  BY <1>3
<1> DEFINE f == FirstOf(t, Len(s))
<1>5. f \in Seq(Characters) /\ Len(f) = Len(s) /\ \A i \in 1..Len(s) : f[i] = t[i]
  BY <1>4, FirstOnes
<1> HIDE DEF f
<1>6. f = s
  BY <1>3, <1>5, SeqEqual
<1>7. SubSeq(s, 1, Len(s)) = s
  BY SubSeqFull
<1> QED BY <1>3, <1>6, <1>7 DEF Lines!IsPrefix, FirstOf, f

\* A line that was cut, if it is read, has all texts of the record, the last
\* one perhaps not to its end.
ReadAs(found, r) ==
  \A k \in 1..RecordFields :
    found[k] = r[k] \/ (k = RecordFields /\ Lines!IsPrefix(found[k], r[k]))
LEMMA PrefixIsRead ==
  ASSUME NEW r \in LineRecords, NEW p \in Seq(Characters), Continues(LineText(r), p), GoodLine(p)
  PROVE ReadAs(ParsedRecord(p), r)
<1> DEFINE F == RecordFields
<1> DEFINE T == Seq(Characters)
<1>1. F \in Nat \ {0} /\ \A k \in 1..F : r[k] \in T
  BY RecordIsSeq
<1>2. PICK qs \in Seq(T), q \in T : SplitsInto(p, "\t", qs, q)
  BY SplitsIntoParts
<1> DEFINE parts == Append(qs, q)
<1>3. Split(p, "\t") = parts
  BY <1>2 DEF SplitsInto
<1>4. Len(parts) = Len(qs) + 1 /\ Len(qs) \in Nat /\ parts[Len(qs) + 1] = q /\ DOMAIN parts = 1..Len(parts)
      /\ \A k \in 1..Len(qs) : parts[k] = qs[k]
  <2> HIDE DEF T
  <2>1. parts \in Seq(T) /\ Len(parts) = Len(qs) + 1 /\ Len(qs) \in Nat /\ parts[Len(qs) + 1] = q
        /\ \A k \in 1..Len(qs) : parts[k] = qs[k]
    BY <1>2, AppendProperties
  <2> HIDE DEF parts
  <2> QED BY <2>1
<1> HIDE DEF parts
<1>5. Len(parts) = F /\ Len(qs) + 1 = F /\ DOMAIN parts = 1..F
  BY <1>3, <1>4 DEF GoodLine
<1>6. PICK w \in T : LineText(r) = p \o w
  BY DEF Continues
<1> DEFINE e == EscapedTexts(r)
<1>7. Split(p \o w, "\t") = e
  BY <1>6, WrittenIsRead, Zenon
<1>8. \A k \in 1..F : e[k] = Lines!Escape(r[k]) /\ Lines!Taken(e[k]).out = r[k]
  <2>1. \A k \in 1..F : e[k] = Lines!Escape(r[k])
    BY EscapedTextsType
  <2>2. \A k \in 1..F : Lines!Taken(Lines!Escape(r[k])) = Whole(r[k])
    BY <1>1, UnescapeEscaped
  <2>3. \A x : Whole(x).out = x
    BY DEF Whole
  <2> HIDE DEF e
  <2> QED BY <2>1, <2>2, <2>3, Zenon
<1> HIDE DEF e
<1>9. (\A k \in 1..Len(qs) : e[k] = qs[k]) /\ Longer(e[Len(qs) + 1], q, Characters)
  <2>1. Prolongs(Split(p \o w, "\t"), qs, q, Characters)
    BY <1>2, <1>6, SplitGrows
  <2>2. Prolongs(e, qs, q, Characters)
    BY <1>7, <2>1, Zenon
  <2> QED BY <2>2, Zenon DEF Prolongs
<1> DEFINE found == ParsedRecord(p)
<1>10. \A k \in 1..F : found[k] = Lines!Taken(parts[k]).out
  BY <1>3, <1>5 DEF ParsedRecord
<1> HIDE DEF found
<1>11. ASSUME NEW k \in 1..F, k # F PROVE found[k] = r[k]
  <2>1. k \in 1..Len(qs)
    BY <1>1, <1>5, <1>11
  <2>2. parts[k] = e[k]
    BY <1>4, <1>9, <2>1
  <2> QED BY <1>8, <1>10, <2>2, Zenon
<1>12. Lines!IsPrefix(found[F], r[F])
  <2>1. F \in 1..F
    BY <1>1
  <2>2. found[F] = Lines!Taken(q).out
    BY <1>4, <1>5, <1>10, <2>1
  <2>3. PICK u \in T : e[F] = q \o u
    BY <1>5, <1>9 DEF Longer
  <2>4. Continues(Lines!Taken(q \o u).out, Lines!Taken(q).out)
    BY <1>2, <2>3, UnescapeAdds
  <2>5. Lines!Taken(q \o u).out = r[F]
    BY <1>8, <2>1, <2>3, Zenon
  <2>6. Lines!Taken(q).out \in T
    BY <1>2, UnescapeType DEF UnescapeStates
  <2>7. Continues(r[F], found[F])
    BY <2>2, <2>4, <2>5, Zenon
  <2> QED BY <1>1, <2>1, <2>2, <2>6, <2>7, ContinuesIsPrefix
<1>13. ASSUME NEW k \in 1..F PROVE found[k] = r[k] \/ (k = F /\ Lines!IsPrefix(found[k], r[k]))
  BY <1>11, <1>12, Zenon
<1> QED BY <1>13, Zenon DEF ReadAs, found

\* A file that was cut gives back the first of the records, if it is read.
KeepsTheFirst(found, rs) ==
  /\ Len(found) <= Len(rs)
  /\ \A i \in 1..Len(found) : \A k \in 1..RecordFields :
       \/ found[i][k] = rs[i][k]
       \/ i = Len(found) /\ k = RecordFields /\ Lines!IsPrefix(found[i][k], rs[i][k])

LEMMA CutIsRead ==
  ASSUME NEW rs \in Seq(HeldRecords), NEW text \in Seq(Characters), NEW rest \in Seq(Characters),
         Lines!Render(rs) = text \o rest, Lines!Parse(text).ok
  PROVE KeepsTheFirst(Lines!Parse(text).records, rs)
<1> DEFINE T == Seq(Characters)
<1> DEFINE ls == PickedLines(text)
<1> DEFINE found == Lines!Parse(text).records
<1>1. PICK k \in 0..Len(rs) : CutLines(rs, k, ls)
  BY CutPicks
<1>2. (\A i \in DOMAIN ls : GoodLine(ls[i])) /\ found = [i \in DOMAIN ls |-> ParsedRecord(ls[i])]
  BY ParseIs, Zenon DEF ParsesBy
<1> DEFINE qs == FirstOf(rs, k)
<1> DEFINE ts == TextsOf(qs)
<1>3. qs \in Seq(HeldRecords) /\ Len(qs) = k /\ (\A i \in 1..k : qs[i] = rs[i]) /\ k \in Nat /\ Len(rs) \in Nat
      /\ k <= Len(rs)
  BY FirstOnes
<1>4. \A i \in 1..Len(rs) : rs[i] \in LineRecords
  BY HeldAreRecords, ElementOfSeq
<1> HIDE DEF ls, found, qs
<1>5. ts \in Seq(T) /\ Len(ts) = k /\ \A i \in 1..k : ts[i] = LineText(qs[i])
  BY <1>3, HeldAreRecords, TextsOfMore
<1> HIDE DEF T, ts
<1>6. ASSUME NEW i \in 1..k, i \in DOMAIN ls, ls[i] = ts[i] PROVE found[i] = rs[i]
  <2>1. qs[i] \in LineRecords
    BY <1>3, <1>4
  <2>2. ParsedRecord(LineText(qs[i])) = qs[i]
    BY <2>1, WrittenIsRead
  <2>3. found[i] = ParsedRecord(ls[i])
    BY <1>2, <1>6
  <2> QED BY <1>3, <1>5, <1>6, <2>2, <2>3, Zenon
<1>7. CASE ls = ts
  <2>1. DOMAIN ls = 1..k /\ \A i \in 1..k : ls[i] = ts[i]
    BY <1>5, <1>7
  <2>2. Len(found) = k
    BY <1>2, <1>3, <2>1
  <2>3. \A i \in 1..k : found[i] = rs[i]
    BY <1>6, <2>1
  <2> QED BY <1>3, <2>2, <2>3 DEF KeepsTheFirst, found
<1>8. CASE k < Len(rs) /\ \E p \in T : ls = Append(ts, p) /\ Continues(LineText(rs[k + 1]), p)
  <2>1. PICK p \in T : ls = Append(ts, p) /\ Continues(LineText(rs[k + 1]), p)
    BY <1>8
  <2>2. ls \in Seq(T) /\ Len(ls) = k + 1 /\ ls[k + 1] = p /\ \A i \in 1..k : ls[i] = ts[i]
    <3> DEFINE us == Append(ts, p)
    <3>1. us \in Seq(T) /\ Len(us) = Len(ts) + 1 /\ us[Len(ts) + 1] = p /\ \A i \in 1..Len(ts) : us[i] = ts[i]
      BY <1>5, AppendProperties
    <3> HIDE DEF us
    <3> QED BY <1>5, <2>1, <3>1 DEF us
  <2>3. DOMAIN ls = 1..k + 1 /\ k + 1 \in 1..k + 1 /\ \A i \in 1..k : i \in 1..k + 1
    BY <1>3, <2>2
  <2>4. Len(found) = k + 1
    BY <1>2, <1>3, <2>3
  <2>5. \A i \in 1..k : found[i] = rs[i]
    BY <1>6, <2>2, <2>3
  <2>6. k + 1 \in 1..Len(rs)
    BY <1>3, <1>8
  <2>7. GoodLine(p) /\ found[k + 1] = ParsedRecord(p)
    BY <1>2, <2>2, <2>3, Zenon
  <2>8. ReadAs(ParsedRecord(p), rs[k + 1])
    BY <1>4, <2>1, <2>6, <2>7, PrefixIsRead DEF T
  <2>9. ReadAs(found[k + 1], rs[k + 1])
    BY <2>7, <2>8, Zenon
  <2>10. ASSUME NEW i \in 1..Len(found), NEW j \in 1..RecordFields
         PROVE \/ found[i][j] = rs[i][j]
               \/ i = Len(found) /\ j = RecordFields /\ Lines!IsPrefix(found[i][j], rs[i][j])
    <3>1. CASE i = k + 1
      BY <2>4, <2>9, <3>1, Zenon DEF ReadAs
    <3>2. CASE i # k + 1
      <4>1. i \in 1..k
        BY <1>3, <2>4, <3>2
      <4> QED BY <2>5, <4>1
    <3> QED BY <3>1, <3>2
  <2>11. Len(found) <= Len(rs)
    BY <1>3, <1>8, <2>4
  <2> QED BY <2>10, <2>11, Zenon DEF KeepsTheFirst, found
<1> QED BY <1>1, <1>7, <1>8, Zenon DEF CutLines, ts, qs, T

\* The inductive invariant of the line format: the records were validated, and
\* what was read is what parsing returns for as much of the file as there is.
LineInv ==
  /\ records \in Seq(ValidRecords)
  /\ kept \in 0..Len(Lines!File)
  /\ read => loaded = Lines!Parse(SubSeq(Lines!File, 1, kept))
  /\ ~read => ~loaded.ok

LEMMA RenderType ==
  ASSUME NEW rs \in Seq(LineRecords) PROVE Lines!Render(rs) \in Seq(Characters)
<1> DEFINE T == Seq(Characters)
<1> DEFINE r == [k \in 1..RecordFields |-> <<>>]
<1>1. r \in LineRecords
  <2>1. <<>> \in T
    BY EmptySeq
  <2> HIDE DEF T
  <2> QED BY <2>1 DEF LineRecords, T
<1> HIDE DEF r
<1>2. RendersMore(rs, r)
  BY <1>1, RenderMore
<1> QED BY <1>2, Zenon DEF RendersMore

LEMMA FileType == LineInv => Lines!File \in Seq(Characters) /\ Len(Lines!File) \in Nat /\ records \in Seq(LineRecords)
<1> SUFFICES ASSUME LineInv PROVE Lines!File \in Seq(Characters) /\ Len(Lines!File) \in Nat /\ records \in Seq(LineRecords)
  OBVIOUS
<1>1. records \in Seq(LineRecords)
  BY SeqMonotonic DEF LineInv, ValidRecords
<1>2. Lines!File \in Seq(Characters)
  BY <1>1, RenderType DEF Lines!File
<1> QED BY <1>1, <1>2

\* It holds at the start, every step keeps it, and it gives the property.
LEMMA LineInvStarts == StoresInit => LineInv
<1> SUFFICES ASSUME StoresInit PROVE LineInv
  OBVIOUS
<1>1. /\ records \in SomeRecords /\ (\A i \in DOMAIN records : Lines!Validates(records[i]))
      /\ kept = Len(Lines!File) /\ read = FALSE /\ loaded = [ok |-> FALSE, records |-> <<>>]
  BY Zenon DEF StoresInit, Lines!Init
<1>2. records \in Seq(LineRecords)
  <2> DEFINE R == [1..RecordFields -> Seq(STRING)]
  <2>1. records \in Seq(R)
    BY <1>1, StoresAssumption DEF RecordsAssumption
  <2>2. R \subseteq LineRecords
    <3>1. STRING \subseteq Characters
      BY DEF Characters
    <3>2. Seq(STRING) \subseteq Seq(Characters)
      BY <3>1, SeqMonotonic
    <3> QED BY <3>2 DEF LineRecords
  <2> HIDE DEF R
  <2> QED BY <2>1, <2>2, SeqMonotonic
<1>3. records \in Seq(ValidRecords)
  <2>1. Len(records) \in Nat /\ DOMAIN records = 1..Len(records) /\ \A i \in 1..Len(records) : records[i] \in LineRecords
    <3>1. \A i \in 1..Len(records) : records[i] \in LineRecords
      BY <1>2, ElementOfSeq
    <3> HIDE DEF LineRecords
    <3> QED BY <1>2, <3>1
  <2>2. \A i \in 1..Len(records) : records[i] \in ValidRecords
    BY <1>1, <2>1 DEF ValidRecords
  <2>3. records = [i \in 1..Len(records) |-> records[i]]
    <3> HIDE DEF LineRecords
    <3> QED BY <1>2
  <2>4. records \in [1..Len(records) -> ValidRecords]
    BY <2>2, <2>3, Zenon
  <2> QED BY <2>1, <2>4, ByPositions
<1>4. Lines!File \in Seq(Characters)
  BY <1>2, RenderType DEF Lines!File
<1>5. kept \in 0..Len(Lines!File)
  BY <1>1, <1>4
<1>6. ~loaded.ok
  BY <1>1
<1> QED BY <1>1, <1>3, <1>5, <1>6 DEF LineInv

LEMMA LineInvStays ==
  LineInv /\ [UseSessions \/ UseHosts \/ UseSites \/ UseLines]_allVars => LineInv'
<1> SUFFICES ASSUME LineInv, [UseSessions \/ UseHosts \/ UseSites \/ UseLines]_allVars PROVE LineInv'
  OBVIOUS
<1>1. Len(Lines!File) \in Nat
  BY FileType
<1>2. CASE UNCHANGED lineVars
  BY <1>2 DEF LineInv, lineVars, Lines!File
<1>3. CASE Lines!Cut
  <2>1. UNCHANGED <<records, read, loaded>> /\ kept' = kept - 1 /\ kept > 0 /\ ~read
    BY <1>3 DEF Lines!Cut
  <2>2. kept' \in 0..Len(Lines!File)
    BY <1>1, <2>1 DEF LineInv
  <2>3. (Lines!File)' = Lines!File
    BY <2>1 DEF Lines!File
  <2>4. kept' \in 0..Len((Lines!File)')
    BY <2>2, <2>3
  <2> QED BY <2>1, <2>4 DEF LineInv
<1>4. CASE Lines!Load
  <2>1. UNCHANGED <<records, kept>> /\ read' = TRUE /\ loaded' = Lines!Parse(SubSeq(Lines!File, 1, kept))
    BY <1>4 DEF Lines!Load
  <2>2. (Lines!File)' = Lines!File
    BY <2>1 DEF Lines!File
  <2>3. kept' \in 0..Len((Lines!File)')
    BY <2>1, <2>2 DEF LineInv
  <2>4. loaded' = Lines!Parse(SubSeq((Lines!File)', 1, kept'))
    BY <2>1, <2>2, Zenon
  <2> QED BY <2>1, <2>3, <2>4 DEF LineInv
<1>5. UNCHANGED lineVars \/ Lines!Cut \/ Lines!Load
  BY Zenon DEF UseSessions, UseHosts, UseSites, UseLines, allVars, lineVars, Lines!Next
<1> QED BY <1>2, <1>3, <1>4, <1>5

LEMMA LineInvReads == LineInv => LinesComeBack
<1> SUFFICES ASSUME LineInv PROVE LinesComeBack
  OBVIOUS
<1> DEFINE text == SubSeq(Lines!File, 1, kept)
<1> DEFINE n == Len(Lines!File)
<1>1. Lines!File \in Seq(Characters) /\ n \in Nat /\ records \in Seq(LineRecords) /\ records \in Seq(ValidRecords)
      /\ kept \in 0..n
  BY FileType DEF LineInv
<1>2. loaded.ok => read
  BY DEF LineInv
<1>3. read => loaded = Lines!Parse(text)
  BY DEF LineInv
<1>4. kept = n => text = Lines!Render(records)
  BY <1>1, SubSeqFull DEF Lines!File
<1>5. (\A i \in DOMAIN records : Lines!Holds(records[i])) => records \in Seq(HeldRecords)
  <2> SUFFICES ASSUME \A i \in DOMAIN records : Lines!Holds(records[i]) PROVE records \in Seq(HeldRecords)
    OBVIOUS
  <2> HIDE DEF LineRecords
  <2>1. Len(records) \in Nat /\ DOMAIN records = 1..Len(records) /\ \A i \in 1..Len(records) : records[i] \in ValidRecords
    <3>1. \A i \in 1..Len(records) : records[i] \in ValidRecords
      BY <1>1, ElementOfSeq
    <3> HIDE DEF ValidRecords
    <3> QED BY <1>1, <3>1
  <2>2. \A i \in 1..Len(records) : records[i] \in HeldRecords
    BY <2>1 DEF ValidRecords, HeldRecords
  <2>3. records = [i \in 1..Len(records) |-> records[i]]
    BY <1>1
  <2>4. records \in [1..Len(records) -> HeldRecords]
    BY <2>2, <2>3, Zenon
  <2> QED BY <2>1, <2>4, ByPositions
<1> HIDE DEF text
<1>6. Lines!RoundTrip
  <2> SUFFICES ASSUME loaded.ok, kept = Len(Lines!File), \A i \in DOMAIN records : Lines!Holds(records[i])
               PROVE loaded.records = records
    BY DEF Lines!RoundTrip
  <2>1. Lines!Parse(Lines!Render(records)).records = records
    BY <1>5, WholeGivesBack
  <2> QED BY <1>2, <1>3, <1>4, <2>1, Zenon
<1>7. Lines!WholeFileLoads
  <2> SUFFICES ASSUME read, kept = Len(Lines!File) PROVE loaded.ok
    BY DEF Lines!WholeFileLoads
  <2>1. Lines!Parse(Lines!Render(records)).ok
    BY <1>1, WholeIsRead
  <2> QED BY <1>3, <1>4, <2>1, Zenon
<1>8. Lines!CutLosesTheEnd
  <2> SUFFICES ASSUME loaded.ok, \A i \in DOMAIN records : Lines!Holds(records[i])
               PROVE KeepsTheFirst(loaded.records, records)
    BY DEF Lines!CutLosesTheEnd, KeepsTheFirst
  <2> DEFINE rest == SubSeq(Lines!File, kept + 1, n)
  <2>1. Lines!File = text \o rest
    <3>1. 1 \in 1..n + 1 /\ kept \in 1 - 1..n /\ n \in kept..n
      BY <1>1
    <3>2. text \o rest = SubSeq(Lines!File, 1, n)
      BY <1>1, <3>1, ConcatAdjacentSubSeq DEF text
    <3>3. SubSeq(Lines!File, 1, n) = Lines!File
      BY <1>1, SubSeqFull
    <3> QED BY <3>2, <3>3, Zenon
  <2>2. text \in Seq(Characters) /\ rest \in Seq(Characters)
    <3>1. \A i \in 1..n : Lines!File[i] \in Characters
      BY <1>1, ElementOfSeq
    <3>2. (\A i \in 1..kept : i \in 1..n) /\ (\A i \in kept + 1..n : i \in 1..n)
      BY <1>1
    <3>3. (\A i \in 1..kept : Lines!File[i] \in Characters) /\ (\A i \in kept + 1..n : Lines!File[i] \in Characters)
      BY <3>1, <3>2
    <3>4. kept \in Int /\ kept + 1 \in Int /\ n \in Int /\ 1 \in Int
      BY <1>1
    <3> DEFINE file0 == Lines!File
    <3> HIDE DEF n
    <3>5. SubSeq(Lines!File, 1, kept) \in Seq(Characters)
      BY <3>3, <3>4, SubSeqProperties
    <3>6. SubSeq(Lines!File, kept + 1, n) \in Seq(Characters)
      BY <3>3, <3>4, SubSeqProperties
    <3> QED BY <3>5, <3>6 DEF text
  <2> HIDE DEF rest
  <2>3. Lines!Render(records) = text \o rest
    BY <2>1, Zenon DEF Lines!File
  <2>4. loaded = Lines!Parse(text)
    BY <1>2, <1>3
  <2>5. Lines!Parse(text).ok
    BY <2>4
  <2>6. KeepsTheFirst(Lines!Parse(text).records, records)
    BY <1>5, <2>2, <2>3, <2>5, CutIsRead
  <2> QED BY <2>4, <2>6, Zenon
<1> QED BY <1>6, <1>7, <1>8 DEF LinesComeBack

\* Whatever tabs, line ends and backslashes are in the texts of the records: a
\* whole file can be read and gives back the records that the format can hold,
\* and of a file that broke off anywhere what is read, if anything, are the
\* first of the records, the last text of the last one perhaps cut: for any
\* number of fields and any records.
THEOREM LinesComeBackAlways == StoresSpec => []LinesComeBack
  BY LineInvStarts, LineInvStays, LineInvReads, PTL DEF StoresSpec
=============================================================================
