--------------------------- MODULE ObservationProofs ---------------------------
(***************************************************************************)
(* What a follower of the telemetry can rely on, for any number of         *)
(* publishers and records and any capacity of the ring and of the channel: *)
(* the last indication it has shown is the newest published, nothing is    *)
(* lost between the replay and the live records, and the slot and the      *)
(* cache are never behind.  BusSound is the inductive invariant.           *)
(*                                                                         *)
(* And what becomes of the events that clients of the debug server inject, *)
(* for any number of clients and any depth of the command queue: each is   *)
(* handled once.  DebugSound is the inductive invariant; the states of the *)
(* core are those of BoothCoreProofs.                                      *)
(***************************************************************************)
EXTENDS TelemetryBus, DebugServer, BoothCoreProofs, FiniteSetTheorems, SequenceTheorems

\* The publishers whose record has an id, and has passed the slot of the status LED.
Busy == {p \in Publishers : pub[p].at # "idle"}
Passed == {p \in Publishers : pub[p].at \in {"retained", "pushed"}}

\* The records that a follower of this process may have been sent.
Out == Range(sent) \cup {pub[p].rec : p \in Passed}

\* No id is used twice, and what was sent has the ids that were handed out.
Numbered ==
    /\ \A p \in Publishers \ Busy : pub[p] = Idle
    /\ \A p \in Busy : pub[p].rec.id \in 1..stamped /\ pub[p].rec.epoch = epoch
    /\ \A p, q \in Busy : p # q => pub[p].rec.id # pub[q].rec.id
    /\ \A i \in 1..Len(sent) : sent[i].id \in 1..stamped /\ sent[i].epoch = epoch
    /\ \A i, j \in 1..Len(sent) : i # j => sent[i].id # sent[j].id
    /\ \A p \in Busy, i \in 1..Len(sent) : sent[i].id # pub[p].rec.id

\* The slot and the cache are never behind what passed them.
SlotsAreNewest ==
    /\ \A rec \in Out : rec.led => rec.id <= latest.id
    /\ latest = NoRecord \/ (latest \in Out /\ latest.led)
    /\ \A i \in 1..tracker : sent[i].led => sent[i].id <= cache.id

\* What followers have, or are to be sent, was published.
Sources ==
    /\ \A i \in 1..Len(ring) :
          ring[i] \in Range(sent) \/ \E p \in Publishers : pub[p].at = "pushed" /\ pub[p].rec = ring[i]
    /\ \A i \in 1..Len(wire) : wire[i] \in Out
    /\ \A i \in DOMAIN conn.todo : conn.todo[i] \in Out
    /\ led.epoch <= epoch /\ (led.led /\ led.epoch = epoch => led \in Out)

\* Indications that do not pass each other are sent in the order of their ids, and the ring
\* loses the oldest first.
LedsInOrder ==
    ~crossed =>
      /\ \A p, q \in Busy : pub[p].rec.led /\ pub[q].rec.led => p = q
      /\ \A i, j \in 1..Len(sent) : i < j /\ sent[i].led /\ sent[j].led => sent[i].id < sent[j].id
      /\ \A p \in Busy, i \in 1..Len(sent) :
            pub[p].rec.led /\ sent[i].led => sent[i].id < pub[p].rec.id
      /\ \A i, j \in 1..Len(ring) : i < j /\ ring[i].led /\ ring[j].led => ring[i].id < ring[j].id
      /\ \A i \in 1..Len(ring), rec \in Indications :
            ring[i].led /\ rec.id > ring[i].id => rec \in Range(ring)
      /\ \A i \in 1..Len(ring), p \in Publishers :
            (ring[i].led /\ pub[p].at = "pushed" /\ pub[p].rec.led /\ pub[p].rec.id > ring[i].id)
               => pub[p].rec \in Range(ring)

TodoInOrder ==
    ~crossed =>
      \A i, j \in DOMAIN conn.todo :
         i < j /\ conn.todo[i].led /\ conn.todo[j].led => conn.todo[i].id < conn.todo[j].id

\* The stages of a connection.
Stages ==
    /\ conn = [at |-> conn.at, pos |-> conn.pos, todo |-> conn.todo, since |-> conn.since,
               lagged |-> conn.lagged]
    /\ drops + epoch <= MaxBreaks
    /\ conn.at \in {"off", "lead"} => wire = <<>>
    /\ conn.at # "replay" => DOMAIN conn.todo = {}
    /\ conn.since \in 0..MaxRecords

\* Before the first connection breaks, what the ring holds has come, or will.
First == drops = 0 /\ epoch = 0
FirstMissesNothing ==
    First =>
      /\ conn.at \in {"off", "lead", "snapshot"} => conn.since = 0
      /\ conn.at = "off" => cursor = 0
      /\ (conn.at \in {"replay", "live"} /\ ~conn.lagged) =>
            \A i \in 1..Len(ring) :
               \/ ring[i] \in seen
               \/ ring[i] \in Range(wire)
               \/ \E k \in DOMAIN conn.todo : conn.todo[k] = ring[i]
               \/ \E k \in (conn.pos + 1)..Len(sent) : sent[k] = ring[i]
               \/ \E p \in Publishers : pub[p].at = "pushed" /\ pub[p].rec = ring[i]

\* Of what is on its way to the terminal, what comes after an indication that is as new as id.
TodoAfter(id) == \A k \in DOMAIN conn.todo : conn.todo[k].led => conn.todo[k].id >= id
InTodo(id) == \E k \in DOMAIN conn.todo : conn.todo[k].led /\ conn.todo[k].id >= id
WireAfter(id, n) == \A k \in n..Len(wire) : wire[k].led => wire[k].id >= id
InWire(id) == \E n \in 1..Len(wire) : wire[n].led /\ WireAfter(id, n)
Shown(id) == led.led /\ led.epoch = epoch /\ led.id >= id
WillShow(id) ==
    \/ InTodo(id)
    \/ TodoAfter(id) /\ InWire(id)
    \/ TodoAfter(id) /\ WireAfter(id, 1) /\ Shown(id)

\* Every indication is to be sent live, or one as new is the last that is on its way, or shown.
NewestIsOnItsWay ==
    (~crossed /\ conn.at \in {"snapshot", "replay", "live"}) =>
        \A i \in 1..conn.pos : sent[i].led => WillShow(sent[i].id)

BusSound ==
    /\ BusTypeOK /\ Numbered /\ SlotsAreNewest /\ Sources /\ LedsInOrder /\ TodoInOrder
    /\ Stages /\ FirstMissesNothing /\ NewestIsOnItsWay

-----------------------------------------------------------------------------
(* Sequences and numbers *)

\* One more at the end of a sequence.
LEMMA AtTheEnd ==
    ASSUME NEW S, NEW s \in Seq(S), NEW e \in S
    PROVE  /\ Append(s, e) \in Seq(S) /\ Len(Append(s, e)) = Len(s) + 1 /\ Len(s) \in Nat
           /\ \A i \in 1..Len(s) : Append(s, e)[i] = s[i]
           /\ Append(s, e)[Len(s) + 1] = e
           /\ Range(Append(s, e)) = Range(s) \cup {e}
<1>1. /\ Append(s, e) \in Seq(S) /\ Len(Append(s, e)) = Len(s) + 1
      /\ \A i \in 1..Len(s) : Append(s, e)[i] = s[i]
      /\ Append(s, e)[Len(s) + 1] = e
  BY AppendProperties
<1>2. Len(s) \in Nat /\ DOMAIN s = 1..Len(s) /\ DOMAIN Append(s, e) = 1..(Len(s) + 1)
  BY <1>1, LenProperties
<1>3. ASSUME NEW x \in Range(Append(s, e))  PROVE x \in Range(s) \cup {e}
  <2>1. PICK i \in 1..(Len(s) + 1) : x = Append(s, e)[i]
    BY <1>2 DEF Range
  <2>2. i \in 1..Len(s) \/ i = Len(s) + 1
    BY <1>2
  <2> QED
    BY <1>1, <1>2, <2>1, <2>2 DEF Range
<1>4. ASSUME NEW i \in 1..Len(s)  PROVE s[i] \in Range(Append(s, e))
  <2>1. i \in DOMAIN Append(s, e) /\ Append(s, e)[i] = s[i]
    BY <1>1, <1>2
  <2> QED
    BY <2>1 DEF Range
<1>5. e \in Range(Append(s, e))
  <2>1. Len(s) + 1 \in DOMAIN Append(s, e)
    BY <1>2
  <2> QED
    BY <1>1, <2>1 DEF Range
<1>6. \A x \in Range(s) : \E i \in 1..Len(s) : x = s[i]
  BY <1>2 DEF Range
<1>7. Range(Append(s, e)) = Range(s) \cup {e}
  BY <1>3, <1>4, <1>5, <1>6
<1> QED
  BY <1>1, <1>2, <1>7

\* The first of a sequence is taken.
LEMMA FromTheFront ==
    ASSUME NEW S, NEW s \in Seq(S), s # <<>>
    PROVE  /\ Tail(s) \in Seq(S) /\ Len(Tail(s)) = Len(s) - 1 /\ Len(s) \in Nat \ {0}
           /\ Head(s) = s[1] /\ Head(s) \in S
           /\ \A i \in 1..Len(Tail(s)) : Tail(s)[i] = s[i + 1]
BY HeadTailProperties, LenProperties, EmptySeq

\* The elements of a sequence.
LEMMA Elements ==
    ASSUME NEW S, NEW s \in Seq(S)
    PROVE  /\ Len(s) \in Nat /\ DOMAIN s = 1..Len(s) /\ \A i \in 1..Len(s) : s[i] \in S
           /\ Range(s) = {s[i] : i \in 1..Len(s)}
BY LenProperties, ElementOfSeq DEF Range

\* As many different ids as there are records.
LEMMA IdsAreEnough ==
    ASSUME NEW s \in Seq(Records), NEW n \in Nat,
           \A i \in 1..Len(s) : s[i].id \in 1..n,
           \A i, j \in 1..Len(s) : i # j => s[i].id # s[j].id
    PROVE  Len(s) <= n
<1> DEFINE f == [i \in 1..Len(s) |-> s[i].id]
<1>1. Len(s) \in Nat
  BY LenProperties
<1>2. ASSUME NEW k \in Nat  PROVE IsFiniteSet(1..k) /\ Cardinality(1..k) = k
  <2>1. IsFiniteSet(1..k) /\ Cardinality(1..k) = IF 1 > k THEN 0 ELSE k - 1 + 1
    BY FS_Interval
  <2> QED
    BY <2>1
<1>3. f \in Injection(1..Len(s), 1..n)
  BY DEF Injection, IsInjective
<1> HIDE DEF f
<1>4. Cardinality(1..Len(s)) <= Cardinality(1..n)
  BY <1>2, <1>3, FS_Injection
<1> QED
  BY <1>1, <1>2, <1>4

-----------------------------------------------------------------------------
(* Records *)

\* What a record holds.
LEMMA Fields ==
    /\ \A r \in Records : r.id \in Nat /\ r.id <= MaxRecords /\ r.epoch \in Nat /\ r.led \in BOOLEAN
    /\ NoRecord \in Records /\ NoRecord.id = 0 /\ NoRecord.led = FALSE /\ NoRecord.epoch = 0
    /\ MaxRecords \in Nat /\ MaxBreaks \in Nat /\ Capacity \in Nat \ {0}
<1>1. MaxRecords \in Nat /\ MaxBreaks \in Nat /\ Capacity \in Nat \ {0}
  BY BusAssumption
<1>2. \A r \in Records : r.id \in 0..MaxRecords /\ r.epoch \in 0..MaxBreaks /\ r.led \in BOOLEAN
  BY DEF Records
<1>3. NoRecord.id = 0 /\ NoRecord.led = FALSE /\ NoRecord.epoch = 0
  BY DEF NoRecord
<1>4. NoRecord \in Records
  <2>1. 0 \in 0..MaxBreaks /\ 0 \in 0..MaxRecords /\ FALSE \in BOOLEAN
    BY <1>1
  <2> QED
    BY <2>1 DEF NoRecord, Records
<1> QED
  BY <1>1, <1>2, <1>3, <1>4

\* A publisher's call.
Calls == [at : {"idle", "stamped", "retained", "pushed"}, rec : Records]

\* A publisher in the middle of a call holds a record of this process.
LEMMA CallFields ==
    ASSUME BusTypeOK
    PROVE  /\ pub \in [Publishers -> Calls]
           /\ \A p \in Publishers : pub[p].rec \in Records
                                    /\ pub[p].at \in {"idle", "stamped", "retained", "pushed"}
<1>1. pub \in [Publishers -> Calls]
  BY DEF BusTypeOK, Calls
<1>2. \A c \in Calls : c.rec \in Records /\ c.at \in {"idle", "stamped", "retained", "pushed"}
  BY DEF Calls
<1> QED
  BY <1>1, <1>2

\* What followers may have been sent are records of this process.
LEMMA OutRecords ==
    ASSUME BusTypeOK, Numbered
    PROVE  \A x \in Out : x \in Records /\ x.id \in 1..stamped /\ x.epoch = epoch
<1>1. \A p \in Passed : p \in Busy /\ p \in Publishers
  BY DEF Passed, Busy
<1>2. sent \in Seq(Records)
  BY DEF BusTypeOK
<1>3. \A x \in Range(sent) : x \in Records /\ \E i \in 1..Len(sent) : x = sent[i]
  BY <1>2, Elements
<1>4. \A x \in Out : x \in Range(sent) \/ \E p \in Passed : x = pub[p].rec
  BY DEF Out
<1>5. \A p \in Passed : pub[p].rec \in Records
  BY <1>1, CallFields
<1>6. \A i \in 1..Len(sent) : sent[i].id \in 1..stamped /\ sent[i].epoch = epoch
  BY DEF Numbered
<1>7. \A p \in Busy : pub[p].rec.id \in 1..stamped /\ pub[p].rec.epoch = epoch
  BY DEF Numbered
<1> QED
  BY <1>1, <1>3, <1>4, <1>5, <1>6, <1>7

\* The numbers of the bus.
LEMMA BusNumbers ==
    ASSUME BusTypeOK
    PROVE  /\ epoch \in Nat /\ stamped \in Nat /\ drops \in Nat /\ cursor \in Nat
           /\ Len(sent) \in Nat /\ Len(ring) \in Nat /\ Len(wire) \in Nat /\ tracker \in 0..Len(sent)
           /\ conn.pos \in 0..Len(sent)
           /\ ring \in Seq(Records) /\ sent \in Seq(Records) /\ wire \in Seq(Records)
           /\ DOMAIN conn.todo \subseteq Nat
<1>1. /\ epoch \in 0..MaxBreaks /\ stamped \in 0..MaxRecords /\ drops \in 0..MaxBreaks
      /\ cursor \in 0..MaxRecords /\ tracker \in 0..Len(sent) /\ conn.pos \in 0..Len(sent)
      /\ ring \in Seq(Records) /\ sent \in Seq(Records) /\ wire \in Seq(Records)
      /\ DOMAIN conn.todo \subseteq 1..Capacity
  BY DEF BusTypeOK
<1>2. Len(sent) \in Nat /\ Len(ring) \in Nat /\ Len(wire) \in Nat
  BY <1>1, LenProperties
<1>3. 1..Capacity \subseteq Nat
  BY Fields
<1>4. epoch \in Nat /\ stamped \in Nat /\ drops \in Nat /\ cursor \in Nat
  BY <1>1, Fields
<1> QED
  BY <1>1, <1>2, <1>3, <1>4

-----------------------------------------------------------------------------
(* What a step leaves alone *)

\* The part of the first connection, when nothing that it speaks of changes.
LEMMA FirstKept ==
    ASSUME BusSound, UNCHANGED <<ring, sent, wire, conn, seen, cursor, drops, epoch>>,
           \A q \in Publishers : pub[q].at = "pushed" => pub'[q] = pub[q]
    PROVE  FirstMissesNothing'
<1>1. FirstMissesNothing
  BY DEF BusSound
<1> QED
  BY <1>1 DEF FirstMissesNothing, First

\* The way of the newest indication, when nothing that it speaks of changes.
LEMMA NewestKept ==
    ASSUME BusSound, UNCHANGED <<sent, wire, conn, led, epoch>>, ~crossed' => ~crossed
    PROVE  NewestIsOnItsWay'
<1>1. NewestIsOnItsWay
  BY DEF BusSound
<1> QED
  BY <1>1 DEF NewestIsOnItsWay, WillShow, InTodo, TodoAfter, InWire, WireAfter, Shown

\* The replay and the stage, when the connection stays.
LEMMA ConnectionKept ==
    ASSUME BusSound, UNCHANGED <<wire, conn, drops, epoch>>, ~crossed' => ~crossed
    PROVE  TodoInOrder' /\ Stages'
<1>1. TodoInOrder /\ Stages
  BY DEF BusSound
<1> QED
  BY <1>1 DEF TodoInOrder, Stages

\* The numbers and the order of the records, when nothing is published.
LEMMA BusKept ==
    ASSUME BusSound, UNCHANGED <<epoch, stamped, pub, ring, sent, latest, crossed>>
    PROVE  Numbered' /\ LedsInOrder' /\ Out' = Out
<1>1. Numbered /\ LedsInOrder
  BY DEF BusSound
<1>2. Busy' = Busy /\ Passed' = Passed /\ Indications' = Indications
  BY DEF Busy, Passed, Indications
<1>3. Out' = Out
  BY <1>2 DEF Out, Passed
<1>4. Numbered'
  BY <1>1, <1>2 DEF Numbered
<1>5. LedsInOrder'
  BY <1>1, <1>2 DEF LedsInOrder
<1> QED
  BY <1>3, <1>4, <1>5

-----------------------------------------------------------------------------
(* The steps of a publisher *)

\* An id is handed out.
LEMMA StampSound ==
    ASSUME BusSound, NEW p \in Publishers, Stamp(p)  PROVE BusSound'
<1>1. /\ BusTypeOK /\ Numbered /\ SlotsAreNewest /\ Sources /\ LedsInOrder
  BY DEF BusSound
<1>2. /\ pub[p].at = "idle" /\ stamped < MaxRecords /\ stamped' = stamped + 1
      /\ UNCHANGED <<epoch, ring, sent, latest, tracker, cache, conn, wire, cursor, seen, led, drops>>
  BY DEF Stamp
<1>3. PICK isLed \in BOOLEAN :
         /\ crossed' = (crossed \/ (isLed /\ \E q \in Publishers : pub[q].rec.led))
         /\ pub' = [pub EXCEPT ![p] = [at |-> "stamped",
                        rec |-> [epoch |-> epoch, id |-> stamped + 1, led |-> isLed]]]
  <2>1. \A b \in {FALSE} \cup {p \in LedPublishers} : b \in BOOLEAN
    OBVIOUS
  <2> QED
    BY <2>1 DEF Stamp
<1> DEFINE new == [epoch |-> epoch, id |-> stamped + 1, led |-> isLed]
<1>4. new \in Records /\ new.id = stamped + 1 /\ new.epoch = epoch /\ new.led = isLed
  <2>1. stamped + 1 \in 0..MaxRecords /\ epoch \in 0..MaxBreaks
    BY <1>1, <1>2, BusNumbers, Fields DEF BusTypeOK
  <2> QED
    BY <2>1 DEF Records
<1>5. /\ pub' \in [Publishers -> Calls]
      /\ pub'[p].at = "stamped" /\ pub'[p].rec = new
      /\ \A q \in Publishers \ {p} : pub'[q] = pub[q]
  <2> HIDE DEF new
  <2>1. [at |-> "stamped", rec |-> new] \in Calls
    BY <1>4 DEF Calls
  <2>2. pub' = [pub EXCEPT ![p] = [at |-> "stamped", rec |-> new]]
    BY <1>3 DEF new
  <2> DEFINE call == [at |-> "stamped", rec |-> new]
  <2>3. call.at = "stamped" /\ call.rec = new
    OBVIOUS
  <2> HIDE DEF call
  <2>4. pub'[p] = call /\ \A q \in Publishers \ {p} : pub'[q] = pub[q]
    BY <1>1, <2>2, CallFields DEF call
  <2>5. pub' \in [Publishers -> Calls]
    BY <1>1, <2>1, <2>2, CallFields
  <2> QED
    BY <2>3, <2>4, <2>5
<1> HIDE DEF new
<1>6. Busy' = Busy \cup {p} /\ p \notin Busy /\ Passed' = Passed /\ p \notin Passed
  BY <1>2, <1>5 DEF Busy, Passed
<1>7. Out' = Out /\ Indications' = Indications
  <2>1. \A q \in Passed : pub'[q] = pub[q]
    BY <1>5, <1>6 DEF Passed
  <2> QED
    BY <1>2, <1>6, <2>1 DEF Out, Indications
<1>8. \A q \in Publishers : (pub[q].at = "pushed" \/ pub'[q].at = "pushed") => pub'[q] = pub[q]
  BY <1>2, <1>5
<1>9. stamped \in Nat /\ stamped + 1 <= MaxRecords /\ MaxRecords \in Nat
  BY <1>1, <1>2, BusNumbers, Fields
<1>10. BusTypeOK'
  <2>1. stamped' \in 0..MaxRecords
    BY <1>2, <1>9
  <2>2. Len(sent) <= stamped'
    <3>1. Len(sent) \in Nat /\ Len(sent) <= stamped
      BY <1>1, BusNumbers DEF BusTypeOK
    <3> QED
      BY <1>2, <1>9, <3>1
  <2>3. crossed' \in BOOLEAN
    BY <1>3
  <2> QED
    BY <1>1, <1>2, <1>5, <2>1, <2>2, <2>3 DEF BusTypeOK, Calls
<1>11. Numbered'
  <2>1. \A q \in Publishers \ Busy' : pub'[q] = Idle
    BY <1>1, <1>5, <1>6 DEF Numbered
  <2>2. \A q \in Busy \ {p} : pub'[q].rec.id \in 1..stamped /\ pub'[q].rec.epoch = epoch
    BY <1>1, <1>5 DEF Numbered, Busy
  <2>3. \A q \in Busy' : pub'[q].rec.id \in 1..stamped' /\ pub'[q].rec.epoch = epoch'
    BY <1>2, <1>4, <1>5, <1>6, <1>9, <2>2
  <2>4. \A q, r \in Busy' : q # r => pub'[q].rec.id # pub'[r].rec.id
    <3>1. \A q \in Busy : pub'[q].rec.id # stamped + 1
      BY <1>6, <1>9, <2>2
    <3>2. \A q, r \in Busy : q # r => pub'[q].rec.id # pub'[r].rec.id
      BY <1>1, <1>5, <1>6 DEF Numbered, Busy
    <3> QED
      BY <1>4, <1>5, <1>6, <3>1, <3>2
  <2>5. \A i \in 1..Len(sent) : sent[i].id \in 1..stamped' /\ sent[i].epoch = epoch
    BY <1>1, <1>2, <1>9 DEF Numbered
  <2>6. \A q \in Busy', i \in 1..Len(sent) : sent[i].id # pub'[q].rec.id
    <3>1. \A i \in 1..Len(sent) : sent[i].id # stamped + 1
      BY <1>1, <1>9 DEF Numbered
    <3>2. \A q \in Busy, i \in 1..Len(sent) : sent[i].id # pub'[q].rec.id
      BY <1>1, <1>5, <1>6 DEF Numbered, Busy
    <3> QED
      BY <1>4, <1>5, <1>6, <3>1, <3>2
  <2> QED
    BY <1>1, <1>2, <2>1, <2>3, <2>4, <2>5, <2>6 DEF Numbered
<1>12. SlotsAreNewest'
  BY <1>1, <1>2, <1>7 DEF SlotsAreNewest
<1>13. Sources'
  BY <1>1, <1>2, <1>7, <1>8 DEF Sources
<1>14. LedsInOrder'
  <2> SUFFICES ASSUME ~crossed'  PROVE LedsInOrder'
    BY DEF LedsInOrder
  <2>1. ~crossed /\ (isLed => \A q \in Publishers : ~pub[q].rec.led)
    BY <1>3
  <2>2. \A q, r \in Busy' : pub'[q].rec.led /\ pub'[r].rec.led => q = r
    <3>1. \A q, r \in Busy : pub'[q].rec.led /\ pub'[r].rec.led => q = r
      BY <1>1, <1>5, <1>6, <2>1 DEF LedsInOrder, Busy
    <3>2. \A q \in Busy : pub'[p].rec.led => ~pub'[q].rec.led
      BY <1>4, <1>5, <1>6, <2>1 DEF Busy
    <3> QED
      BY <1>6, <3>1, <3>2
  <2>3. \A q \in Busy', i \in 1..Len(sent) :
           pub'[q].rec.led /\ sent[i].led => sent[i].id < pub'[q].rec.id
    <3>1. \A i \in 1..Len(sent) : sent[i].id < stamped + 1
      BY <1>1, <1>9 DEF Numbered
    <3>2. \A q \in Busy, i \in 1..Len(sent) :
             pub'[q].rec.led /\ sent[i].led => sent[i].id < pub'[q].rec.id
      BY <1>1, <1>5, <1>6, <2>1 DEF LedsInOrder, Busy
    <3> QED
      BY <1>4, <1>5, <1>6, <3>1, <3>2
  <2> QED
    BY <1>1, <1>2, <1>7, <1>8, <2>1, <2>2, <2>3 DEF LedsInOrder
<1>15. TodoInOrder' /\ Stages' /\ NewestIsOnItsWay'
  BY <1>2, <1>3, ConnectionKept, NewestKept
<1>16. FirstMissesNothing'
  BY <1>2, <1>8, FirstKept
<1> QED
  BY <1>10, <1>11, <1>12, <1>13, <1>14, <1>15, <1>16 DEF BusSound

\* The call moves on to the next place, and the record stays: who is busy, and with what.
LEMMA CallMovesOn ==
    ASSUME BusSound, NEW p \in Publishers, NEW at \in {"retained", "pushed"},
           pub[p].at # "idle", pub' = [pub EXCEPT ![p].at = at]
    PROVE  /\ pub' \in [Publishers -> Calls]
           /\ pub'[p].at = at /\ pub'[p].rec = pub[p].rec
           /\ \A q \in Publishers \ {p} : pub'[q] = pub[q]
           /\ \A q \in Publishers : pub'[q].rec = pub[q].rec
           /\ Busy' = Busy /\ p \in Busy /\ Passed' = Passed \cup {p}
           /\ sent' = sent => Out' = Out \cup {pub[p].rec}
           /\ UNCHANGED <<epoch, stamped, sent>> => Numbered'
<1>1. BusTypeOK /\ Numbered
  BY DEF BusSound
<1>2. pub \in [Publishers -> Calls] /\ pub[p] \in Calls
  BY <1>1, CallFields
<1>3. pub' = [pub EXCEPT ![p] = [pub[p] EXCEPT !.at = at]]
  OBVIOUS
<1> DEFINE call == [pub[p] EXCEPT !.at = at]
<1>4. call \in Calls /\ call.at = at /\ call.rec = pub[p].rec
  BY <1>2 DEF Calls
<1> HIDE DEF call
<1>5. /\ pub' \in [Publishers -> Calls] /\ pub'[p] = call
      /\ \A q \in Publishers \ {p} : pub'[q] = pub[q]
  BY <1>2, <1>3, <1>4 DEF call
<1>6. \A q \in Publishers : pub'[q].rec = pub[q].rec
  BY <1>4, <1>5
<1>7. Busy' = Busy /\ p \in Busy /\ Passed' = Passed \cup {p}
  BY <1>4, <1>5 DEF Busy, Passed
<1>8. sent' = sent => Out' = Out \cup {pub[p].rec}
  <2>1. \A q \in Passed' : pub'[q].rec = pub[q].rec
    BY <1>6 DEF Passed
  <2>2. {pub'[q].rec : q \in Passed'} = {pub[q].rec : q \in Passed} \cup {pub[p].rec}
    BY <1>7, <2>1
  <2> QED
    BY <2>2 DEF Out
<1>9. UNCHANGED <<epoch, stamped, sent>> => Numbered'
  <2> SUFFICES ASSUME UNCHANGED <<epoch, stamped, sent>>  PROVE Numbered'
    OBVIOUS
  <2>1. \A q \in Publishers \ Busy' : pub'[q] = Idle
    BY <1>1, <1>5, <1>7 DEF Numbered
  <2>2. \A q \in Busy : pub'[q].rec = pub[q].rec
    BY <1>6 DEF Busy
  <2> QED
    BY <1>1, <1>7, <2>1, <2>2 DEF Numbered
<1> QED
  BY <1>4, <1>5, <1>6, <1>7, <1>8, <1>9

\* The slot of the status LED takes the record, when it is newer.
LEMMA RetainSound ==
    ASSUME BusSound, NEW p \in Publishers, Retain(p)  PROVE BusSound'
<1>1. /\ BusTypeOK /\ Numbered /\ SlotsAreNewest /\ Sources /\ LedsInOrder
  BY DEF BusSound
<1>2. /\ pub[p].at = "stamped" /\ pub' = [pub EXCEPT ![p].at = "retained"]
      /\ latest' = IF pub[p].rec.led /\ pub[p].rec.id > latest.id THEN pub[p].rec ELSE latest
      /\ UNCHANGED <<epoch, stamped, ring, sent, tracker, cache, conn, wire, cursor, seen, led, drops, crossed>>
  BY DEF Retain, clientVars
<1>3. /\ pub' \in [Publishers -> Calls]
      /\ pub'[p].at = "retained" /\ pub'[p].rec = pub[p].rec
      /\ \A q \in Publishers \ {p} : pub'[q] = pub[q]
      /\ \A q \in Publishers : pub'[q].rec = pub[q].rec
      /\ Busy' = Busy /\ p \in Busy /\ Passed' = Passed \cup {p}
      /\ Out' = Out \cup {pub[p].rec} /\ Numbered'
  BY <1>2, CallMovesOn
<1>4. \A q \in Publishers : (pub[q].at = "pushed" \/ pub'[q].at = "pushed") => pub'[q] = pub[q]
  BY <1>2, <1>3
<1>5. pub[p].rec \in Records /\ latest \in Records
  BY <1>1, CallFields DEF BusTypeOK
<1>6. BusTypeOK'
  BY <1>1, <1>2, <1>3, <1>5 DEF BusTypeOK, Calls
<1>7. SlotsAreNewest'
  <2>1. latest.id \in Nat /\ pub[p].rec.id \in Nat /\ latest.id <= latest'.id
    BY <1>2, <1>5, Fields
  <2>2. pub[p].rec.led => pub[p].rec.id <= latest'.id
    BY <1>2, <2>1
  <2>3. \A rec \in Out : rec.led => rec.id <= latest'.id
    <3>1. \A rec \in Out : rec.id \in Nat /\ (rec.led => rec.id <= latest.id)
      BY <1>1, OutRecords, Fields DEF SlotsAreNewest
    <3>2. latest'.id \in Nat
      BY <1>2, <2>1
    <3> QED
      BY <2>1, <3>1, <3>2
  <2>4. latest' = NoRecord \/ (latest' \in Out' /\ latest'.led)
    BY <1>1, <1>2, <1>3 DEF SlotsAreNewest
  <2> QED
    BY <1>1, <1>2, <1>3, <2>2, <2>3, <2>4 DEF SlotsAreNewest
<1>8. Sources'
  BY <1>1, <1>2, <1>3, <1>4 DEF Sources
<1>9. LedsInOrder'
  <2>1. Indications' = Indications
    BY <1>2 DEF Indications
  <2>2. \A q \in Busy : pub'[q].rec = pub[q].rec
    BY <1>3 DEF Busy
  <2> QED
    BY <1>1, <1>2, <1>3, <1>4, <2>1, <2>2 DEF LedsInOrder
<1>10. TodoInOrder' /\ Stages' /\ NewestIsOnItsWay'
  BY <1>2, ConnectionKept, NewestKept
<1>11. FirstMissesNothing'
  BY <1>2, <1>4, FirstKept
<1> QED
  BY <1>3, <1>6, <1>7, <1>8, <1>9, <1>10, <1>11 DEF BusSound

\* A ring that takes one more: the others move up by k places, which is none or one.
LEMMA PushedIs ==
    ASSUME BusTypeOK, NEW rec \in Records
    PROVE  \E k \in {0, 1} :
             /\ Pushed(rec) \in Seq(Records) /\ Len(Pushed(rec)) = Len(ring) - k + 1
             /\ k <= Len(ring) /\ Len(Pushed(rec)) <= Capacity
             /\ \A i \in 1..(Len(ring) - k) : Pushed(rec)[i] = ring[i + k]
             /\ Pushed(rec)[Len(ring) - k + 1] = rec
<1>1. ring \in Seq(Records) /\ Len(ring) <= Capacity /\ Len(ring) \in Nat
      /\ Capacity \in Nat \ {0}
  BY BusNumbers, Fields DEF BusTypeOK
<1>2. CASE Len(ring) >= Capacity
  <2>1. ring # <<>>
    <3>1. Len(<<>>) = 0
      OBVIOUS
    <3> QED
      BY <1>1, <1>2, <3>1
  <2> DEFINE kept == Tail(ring)
  <2>2. /\ kept \in Seq(Records) /\ Len(kept) = Len(ring) - 1
        /\ \A i \in 1..Len(kept) : kept[i] = ring[i + 1]
    BY <1>1, <2>1, FromTheFront
  <2>3. Pushed(rec) = Append(kept, rec)
    BY <1>2 DEF Pushed
  <2> HIDE DEF kept
  <2>4. /\ Append(kept, rec) \in Seq(Records) /\ Len(Append(kept, rec)) = Len(kept) + 1
        /\ \A i \in 1..Len(kept) : Append(kept, rec)[i] = kept[i]
        /\ Append(kept, rec)[Len(kept) + 1] = rec
    BY <2>2, AtTheEnd
  <2>5. \A i \in 1..(Len(ring) - 1) : Append(kept, rec)[i] = ring[i + 1]
    BY <2>2, <2>4
  <2>6. 1 <= Len(ring) /\ Len(ring) - 1 + 1 <= Capacity
    BY <1>1, <1>2
  <2> WITNESS 1 \in {0, 1}
  <2> QED
    BY <2>2, <2>3, <2>4, <2>5, <2>6
<1>3. CASE Len(ring) < Capacity
  <2> DEFINE more == Append(ring, rec)
  <2>1. Pushed(rec) = more
    BY <1>1, <1>3 DEF Pushed
  <2>2. /\ more \in Seq(Records) /\ Len(more) = Len(ring) + 1
        /\ \A i \in 1..Len(ring) : more[i] = ring[i]
        /\ more[Len(ring) + 1] = rec
    BY <1>1, AtTheEnd
  <2> HIDE DEF more
  <2>3. Len(ring) - 0 = Len(ring) /\ \A i \in 1..Len(ring) : i + 0 = i
    BY <1>1
  <2>4. \A i \in 1..(Len(ring) - 0) : more[i] = ring[i + 0]
    BY <2>2, <2>3
  <2>5. Len(ring) + 1 <= Capacity /\ Len(ring) - 0 + 1 = Len(ring) + 1 /\ 0 <= Len(ring)
    BY <1>1, <1>3
  <2> WITNESS 0 \in {0, 1}
  <2> QED
    BY <2>1, <2>2, <2>3, <2>4, <2>5, SMTT(30)
<1> QED
  BY <1>1, <1>2, <1>3

\* The ring takes the record, and may lose its oldest.
LEMMA PushSound ==
    ASSUME BusSound, NEW p \in Publishers, Push(p)  PROVE BusSound'
<1>1. /\ BusTypeOK /\ Numbered /\ SlotsAreNewest /\ Sources /\ LedsInOrder /\ FirstMissesNothing
  BY DEF BusSound
<1>2. /\ pub[p].at = "retained" /\ pub' = [pub EXCEPT ![p].at = "pushed"]
      /\ ring' = Pushed(pub[p].rec)
      /\ UNCHANGED <<epoch, stamped, sent, latest, tracker, cache, conn, wire, cursor, seen, led, drops, crossed>>
  BY DEF Push, clientVars
<1>3. /\ pub' \in [Publishers -> Calls]
      /\ pub'[p].at = "pushed" /\ pub'[p].rec = pub[p].rec
      /\ \A q \in Publishers \ {p} : pub'[q] = pub[q]
      /\ \A q \in Publishers : pub'[q].rec = pub[q].rec
      /\ Busy' = Busy /\ p \in Busy /\ Passed' = Passed \cup {p}
      /\ Out' = Out \cup {pub[p].rec} /\ Numbered'
  BY <1>2, CallMovesOn
<1>4. p \in Passed /\ pub[p].rec \in Out /\ Out' = Out
  <2>1. p \in Passed
    BY <1>2 DEF Passed
  <2>2. pub[p].rec \in Out
    BY <2>1 DEF Out
  <2> QED
    BY <1>3, <2>1, <2>2
<1>5. \A q \in Publishers : pub[q].at = "pushed" => pub'[q] = pub[q]
  BY <1>2, <1>3
<1>6. \A q \in Publishers : pub'[q].at = "pushed" => q = p \/ (pub[q].at = "pushed" /\ pub'[q] = pub[q])
  BY <1>3
<1> DEFINE rec == pub[p].rec
<1>7. rec \in Records
  BY <1>1, CallFields
<1>8. PICK k \in {0, 1} :
             /\ ring' \in Seq(Records) /\ Len(ring') = Len(ring) - k + 1
             /\ k <= Len(ring) /\ Len(ring') <= Capacity
             /\ \A i \in 1..(Len(ring) - k) : ring'[i] = ring[i + k]
             /\ ring'[Len(ring) - k + 1] = rec
  <2> HIDE DEF rec
  <2> QED
    BY <1>1, <1>2, <1>7, PushedIs DEF rec
<1>9. Len(ring) \in Nat /\ ring \in Seq(Records)
  BY <1>1, BusNumbers
<1>10. ASSUME NEW i \in 1..Len(ring')
       PROVE  \/ i = Len(ring) - k + 1 /\ ring'[i] = rec
              \/ i \in 1..(Len(ring) - k) /\ i + k \in 1..Len(ring) /\ ring'[i] = ring[i + k]
  BY <1>8, <1>9
<1>11. ASSUME NEW x \in Range(ring)  PROVE x \in Range(ring') \/ (k = 1 /\ x = ring[1])
  <2>1. PICK i \in 1..Len(ring) : x = ring[i]
    BY <1>9, Elements
  <2>2. CASE i = 1 /\ k = 1
    BY <2>1, <2>2
  <2>3. CASE i - k \in 1..(Len(ring) - k)
    <3>1. i - k \in 1..Len(ring') /\ (i - k) + k = i
      BY <1>8, <1>9, <2>3
    <3>2. ring'[i - k] = x
      BY <1>8, <2>1, <2>3, <3>1
    <3> QED
      BY <1>8, <3>1, <3>2, Elements
  <2> QED
    BY <1>9, <2>2, <2>3
<1>12. rec \in Range(ring')
  <2>1. Len(ring) - k + 1 \in 1..Len(ring')
    BY <1>8, <1>9
  <2> QED
    BY <1>8, <2>1, Elements
<1>13. BusTypeOK'
  BY <1>1, <1>2, <1>3, <1>8 DEF BusTypeOK, Calls
<1>14. SlotsAreNewest'
  BY <1>1, <1>2, <1>4 DEF SlotsAreNewest
<1>15. Sources'
  <2>1. ASSUME NEW i \in 1..Len(ring')
        PROVE  ring'[i] \in Range(sent) \/ \E q \in Publishers : pub'[q].at = "pushed" /\ pub'[q].rec = ring'[i]
    <3>1. CASE i = Len(ring) - k + 1 /\ ring'[i] = rec
      BY <1>3, <3>1
    <3>2. CASE i + k \in 1..Len(ring) /\ ring'[i] = ring[i + k]
      <4>1. \/ ring[i + k] \in Range(sent)
            \/ \E q \in Publishers : pub[q].at = "pushed" /\ pub[q].rec = ring[i + k]
        BY <1>1, <3>2 DEF Sources
      <4> QED
        BY <1>5, <3>2, <4>1
    <3> QED
      BY <1>10, <3>1, <3>2
  <2> QED
    BY <1>1, <1>2, <1>4, <2>1 DEF Sources
<1>16. LedsInOrder'
  <2> SUFFICES ASSUME ~crossed'  PROVE LedsInOrder'
    BY DEF LedsInOrder
  <2>1. ~crossed /\ Indications' = Indications
    BY <1>2 DEF Indications
  <2>2. \A q \in Busy : pub'[q].rec = pub[q].rec
    BY <1>3 DEF Busy
  <2>3. \A i \in 1..Len(ring) : ring[i].led /\ rec.led => ring[i].id < rec.id
    <3> SUFFICES ASSUME NEW i \in 1..Len(ring), ring[i].led, rec.led  PROVE ring[i].id < rec.id
      OBVIOUS
    <3>1. CASE ring[i] \in Range(sent)
      <4>1. PICK j \in 1..Len(sent) : ring[i] = sent[j]
        BY <1>1, <3>1, BusNumbers, Elements
      <4> QED
        BY <1>1, <1>3, <2>1, <4>1 DEF LedsInOrder
    <3>2. CASE \E q \in Publishers : pub[q].at = "pushed" /\ pub[q].rec = ring[i]
      <4>1. PICK q \in Publishers : pub[q].at = "pushed" /\ pub[q].rec = ring[i]
        BY <3>2
      <4>2. q \in Busy /\ q # p
        BY <1>2, <4>1 DEF Busy
      <4> QED
        BY <1>1, <1>3, <2>1, <4>1, <4>2 DEF LedsInOrder
    <3> QED
      BY <1>1, <3>1, <3>2 DEF Sources
  <2>4. \A i, j \in 1..Len(ring') :
           i < j /\ ring'[i].led /\ ring'[j].led => ring'[i].id < ring'[j].id
    <3> SUFFICES ASSUME NEW i \in 1..Len(ring'), NEW j \in 1..Len(ring'), i < j,
                        ring'[i].led, ring'[j].led
                 PROVE  ring'[i].id < ring'[j].id
      OBVIOUS
    <3>1. i \in 1..(Len(ring) - k) /\ i + k \in 1..Len(ring) /\ ring'[i] = ring[i + k]
      <4>1. k \in {0, 1} /\ Len(ring') = Len(ring) - k + 1 /\ Len(ring) \in Nat
        BY <1>8, <1>9
      <4>2. i # Len(ring) - k + 1
        BY <4>1
      <4> QED
        BY <1>10, <4>2
    <3>2. CASE ring'[j] = rec
      BY <2>3, <3>1, <3>2
    <3>3. CASE j + k \in 1..Len(ring) /\ ring'[j] = ring[j + k]
      <4>1. i + k < j + k
        BY <3>3
      <4> QED
        BY <1>1, <2>1, <3>1, <3>3, <4>1 DEF LedsInOrder
    <3> QED
      BY <1>10, <3>2, <3>3
  <2>5. ASSUME NEW i \in 1..Len(ring'), ring'[i].led, NEW x \in Records, x.led,
               x.id > ring'[i].id, x \in Indications \/ x \in {pub[q].rec : q \in {q \in Publishers : pub[q].at = "pushed"}}
        PROVE  x \in Range(ring')
    <3>1. CASE ring'[i] = rec
      <4>1. CASE x \in Indications
        <5>1. PICK j \in 1..Len(sent) : x = sent[j]
          BY <1>1, <4>1, BusNumbers, Elements DEF Indications
        <5>2. x.id < rec.id
          BY <1>1, <1>3, <2>1, <2>5, <3>1, <5>1 DEF LedsInOrder
        <5> QED
          BY <1>7, <2>5, <3>1, <5>2, Fields
      <4>2. CASE x \in {pub[q].rec : q \in {q \in Publishers : pub[q].at = "pushed"}}
        <5>1. PICK q \in Publishers : pub[q].at = "pushed" /\ x = pub[q].rec
          BY <4>2
        <5>2. q \in Busy /\ q # p
          BY <1>2, <5>1 DEF Busy
        <5> QED
          BY <1>1, <1>3, <2>1, <2>5, <3>1, <5>1, <5>2 DEF LedsInOrder
      <4> QED
        BY <2>5, <4>1, <4>2
    <3>2. CASE i + k \in 1..Len(ring) /\ i \in 1..(Len(ring) - k) /\ ring'[i] = ring[i + k]
      <4>1. x \in Range(ring)
        BY <1>1, <2>1, <2>5, <3>2 DEF LedsInOrder
      <4>2. ~(k = 1 /\ x = ring[1])
        <5> SUFFICES ASSUME k = 1, x = ring[1]  PROVE FALSE
          OBVIOUS
        <5>1. 1 \in 1..Len(ring) /\ 1 < i + k /\ ring[i + k] \in Records
          BY <1>9, <3>2, Elements
        <5>2. ring[1].id < ring[i + k].id
          BY <1>1, <2>1, <2>5, <3>2, <5>1 DEF LedsInOrder
        <5> QED
          BY <2>5, <3>2, <5>1, <5>2, Fields
      <4> QED
        BY <1>11, <4>1, <4>2
    <3> QED
      BY <1>10, <3>1, <3>2
  <2>6. \A i \in 1..Len(ring'), x \in Indications :
           ring'[i].led /\ x.id > ring'[i].id => x \in Range(ring')
    <3>1. \A x \in Indications : x \in Records /\ x.led
      BY <1>1, BusNumbers, Elements DEF Indications
    <3> QED
      BY <2>5, <3>1
  <2>7. ASSUME NEW i \in 1..Len(ring'), NEW q \in Publishers, ring'[i].led, pub'[q].at = "pushed",
               pub'[q].rec.led, pub'[q].rec.id > ring'[i].id
        PROVE  pub'[q].rec \in Range(ring')
    <3>1. CASE q = p
      BY <1>3, <1>12, <3>1
    <3>2. CASE pub[q].at = "pushed" /\ pub'[q] = pub[q]
      <4>1. pub[q].rec \in Records
        BY <1>1, CallFields
      <4> QED
        BY <2>5, <2>7, <3>2, <4>1
    <3> QED
      BY <1>6, <2>7, <3>1, <3>2
  <2> QED
    BY <1>1, <1>2, <1>3, <2>1, <2>2, <2>4, <2>6, <2>7 DEF LedsInOrder
<1>17. TodoInOrder' /\ Stages' /\ NewestIsOnItsWay'
  BY <1>2, ConnectionKept, NewestKept
<1>18. FirstMissesNothing'
  <2> SUFFICES ASSUME First', conn'.at \in {"replay", "live"}, ~conn'.lagged, NEW i \in 1..Len(ring')
               PROVE  \/ ring'[i] \in seen
                      \/ ring'[i] \in Range(wire)
                      \/ \E l \in DOMAIN conn.todo : conn.todo[l] = ring'[i]
                      \/ \E l \in (conn.pos + 1)..Len(sent) : sent[l] = ring'[i]
                      \/ \E q \in Publishers : pub'[q].at = "pushed" /\ pub'[q].rec = ring'[i]
    BY <1>1, <1>2 DEF FirstMissesNothing, First
  <2>1. CASE ring'[i] = rec
    BY <1>3, <2>1
  <2>2. CASE i + k \in 1..Len(ring) /\ ring'[i] = ring[i + k]
    <3>1. First /\ conn.at \in {"replay", "live"} /\ ~conn.lagged
      BY <1>2 DEF First
    <3>2. \/ ring[i + k] \in seen
          \/ ring[i + k] \in Range(wire)
          \/ \E l \in DOMAIN conn.todo : conn.todo[l] = ring[i + k]
          \/ \E l \in (conn.pos + 1)..Len(sent) : sent[l] = ring[i + k]
          \/ \E q \in Publishers : pub[q].at = "pushed" /\ pub[q].rec = ring[i + k]
      BY <1>1, <2>2, <3>1 DEF FirstMissesNothing
    <3> QED
      BY <1>5, <2>2, <3>2
  <2> QED
    BY <1>10, <2>1, <2>2
<1> QED
  BY <1>3, <1>13, <1>14, <1>15, <1>16, <1>17, <1>18 DEF BusSound

\* The record is sent to those who follow live.
LEMMA BroadcastSound ==
    ASSUME BusSound, NEW p \in Publishers, Broadcast(p)  PROVE BusSound'
<1>1. /\ BusTypeOK /\ Numbered /\ SlotsAreNewest /\ Sources /\ LedsInOrder /\ FirstMissesNothing
      /\ NewestIsOnItsWay
  BY DEF BusSound
<1>2. /\ pub[p].at = "pushed" /\ pub' = [pub EXCEPT ![p] = Idle]
      /\ sent' = Append(sent, pub[p].rec)
      /\ UNCHANGED <<epoch, stamped, ring, latest, tracker, cache, conn, wire, cursor, seen, led, drops, crossed>>
  BY DEF Broadcast, clientVars
<1>3. /\ pub' \in [Publishers -> Calls] /\ pub'[p] = Idle /\ Idle.at = "idle"
      /\ \A q \in Publishers \ {p} : pub'[q] = pub[q]
  <2>1. Idle \in Calls /\ Idle.at = "idle"
    BY Fields DEF Idle, Calls
  <2> QED
    BY <1>1, <1>2, <2>1, CallFields
<1>4. Busy' = Busy \ {p} /\ p \in Busy /\ Passed' = Passed \ {p} /\ p \in Passed
  BY <1>2, <1>3 DEF Busy, Passed
<1> DEFINE rec == pub[p].rec
           n == Len(sent)
<1>5. rec \in Records
  BY <1>1, CallFields
<1>6. /\ sent' \in Seq(Records) /\ Len(sent') = n + 1 /\ n \in Nat
      /\ \A i \in 1..n : sent'[i] = sent[i]
      /\ sent'[n + 1] = rec
      /\ Range(sent') = Range(sent) \cup {rec}
  <2>1. sent \in Seq(Records)
    BY <1>1, BusNumbers
  <2> HIDE DEF rec
  <2> QED
    BY <1>2, <1>5, <2>1, AtTheEnd DEF rec
<1>7. ASSUME NEW i \in 1..Len(sent')
      PROVE  (i = n + 1 /\ sent'[i] = rec) \/ (i \in 1..n /\ sent'[i] = sent[i])
  <2> HIDE DEF n
  <2> QED
    BY <1>6
<1>8. Out' = Out
  <2>1. \A q \in Passed' : pub'[q] = pub[q]
    BY <1>3, <1>4 DEF Passed
  <2>2. {pub[q].rec : q \in Passed} = {pub'[q].rec : q \in Passed'} \cup {rec}
    BY <1>4, <2>1
  <2> QED
    BY <1>6, <2>2 DEF Out
<1>9. \A q \in Publishers : pub'[q].at = "pushed" => pub[q].at = "pushed" /\ pub'[q] = pub[q]
  BY <1>3
<1>10. \A q \in Publishers : pub[q].at = "pushed" => q = p \/ (pub'[q].at = "pushed" /\ pub'[q] = pub[q])
  BY <1>3
<1>11. \A q \in Busy' : q \in Busy /\ q # p /\ pub'[q] = pub[q]
  BY <1>3, <1>4 DEF Busy
<1> HIDE DEF rec, n
<1>12. Numbered'
  <2>1. \A q \in Publishers \ Busy' : pub'[q] = Idle
    BY <1>1, <1>3, <1>4 DEF Numbered
  <2>2. \A q \in Busy' : pub'[q].rec.id \in 1..stamped' /\ pub'[q].rec.epoch = epoch'
    BY <1>1, <1>2, <1>11 DEF Numbered
  <2>3. \A q, r \in Busy' : q # r => pub'[q].rec.id # pub'[r].rec.id
    BY <1>1, <1>11 DEF Numbered
  <2>4. rec.id \in 1..stamped /\ rec.epoch = epoch
    BY <1>1, <1>4 DEF Numbered, rec
  <2>5. \A i \in 1..n : sent[i].id \in 1..stamped /\ sent[i].epoch = epoch /\ sent[i].id # rec.id
    BY <1>1, <1>4 DEF Numbered, rec, n
  <2>6. \A i \in 1..Len(sent') : sent'[i].id \in 1..stamped' /\ sent'[i].epoch = epoch'
    BY <1>2, <1>7, <2>4, <2>5
  <2>7. \A i, j \in 1..Len(sent') : i # j => sent'[i].id # sent'[j].id
    <3> SUFFICES ASSUME NEW i \in 1..Len(sent'), NEW j \in 1..Len(sent'), i # j
                 PROVE  sent'[i].id # sent'[j].id
      OBVIOUS
    <3>1. CASE i \in 1..n /\ j \in 1..n /\ sent'[i] = sent[i] /\ sent'[j] = sent[j]
      BY <1>1, <3>1 DEF Numbered, n
    <3> QED
      BY <1>7, <2>5, <3>1
  <2>8. \A q \in Busy', i \in 1..Len(sent') : sent'[i].id # pub'[q].rec.id
    <3>1. \A q \in Busy', i \in 1..n : sent[i].id # pub'[q].rec.id
      BY <1>1, <1>11 DEF Numbered, n
    <3>2. \A q \in Busy' : rec.id # pub'[q].rec.id
      BY <1>1, <1>4, <1>11 DEF Numbered, rec
    <3> QED
      BY <1>7, <3>1, <3>2
  <2> QED
    BY <2>1, <2>2, <2>3, <2>6, <2>7, <2>8 DEF Numbered
<1>13. BusTypeOK'
  <2>1. Len(sent') <= stamped'
    <3>1. stamped' \in Nat
      BY <1>1, <1>2, BusNumbers
    <3> QED
      BY <1>6, <1>12, <3>1, IdsAreEnough DEF Numbered
  <2>2. tracker \in 0..Len(sent') /\ conn.pos \in 0..Len(sent')
    BY <1>1, <1>6, BusNumbers DEF n
  <2> QED
    BY <1>1, <1>2, <1>3, <1>6, <2>1, <2>2 DEF BusTypeOK, Calls
<1>14. SlotsAreNewest'
  <2>1. \A i \in 1..tracker : i \in 1..n
    BY <1>1, BusNumbers DEF n
  <2>2. \A i \in 1..tracker : sent'[i].led => sent'[i].id <= cache.id
    BY <1>1, <1>6, <2>1 DEF SlotsAreNewest
  <2> QED
    BY <1>1, <1>2, <1>8, <2>2 DEF SlotsAreNewest
<1>15. Sources'
  <2>1. ASSUME NEW i \in 1..Len(ring)
        PROVE  ring[i] \in Range(sent') \/ \E q \in Publishers : pub'[q].at = "pushed" /\ pub'[q].rec = ring[i]
    BY <1>1, <1>6, <1>10 DEF Sources, rec
  <2> QED
    BY <1>1, <1>2, <1>8, <2>1 DEF Sources
<1>16. Indications' \subseteq Indications \cup {rec} /\ Indications \subseteq Indications'
       /\ (~rec.led => Indications' = Indications)
  BY <1>6 DEF Indications
<1>17. LedsInOrder'
  <2> SUFFICES ASSUME ~crossed'  PROVE LedsInOrder'
    BY DEF LedsInOrder
  <2>1. ~crossed
    BY <1>2
  <2>2. \A q, r \in Busy' : pub'[q].rec.led /\ pub'[r].rec.led => q = r
    BY <1>1, <1>11, <2>1 DEF LedsInOrder
  <2>3. \A i \in 1..n : sent[i].led /\ rec.led => sent[i].id < rec.id
    BY <1>1, <1>4, <2>1 DEF LedsInOrder, rec, n
  <2>4. \A i, j \in 1..Len(sent') : i < j /\ sent'[i].led /\ sent'[j].led => sent'[i].id < sent'[j].id
    <3> SUFFICES ASSUME NEW i \in 1..Len(sent'), NEW j \in 1..Len(sent'), i < j,
                        sent'[i].led, sent'[j].led
                 PROVE  sent'[i].id < sent'[j].id
      OBVIOUS
    <3>1. i \in 1..n /\ sent'[i] = sent[i]
      BY <1>6, <1>7
    <3>2. CASE j \in 1..n /\ sent'[j] = sent[j]
      BY <1>1, <2>1, <3>1, <3>2 DEF LedsInOrder, n
    <3>3. CASE sent'[j] = rec
      BY <2>3, <3>1, <3>3
    <3> QED
      BY <1>7, <3>2, <3>3
  <2>5. \A q \in Busy', i \in 1..Len(sent') :
           pub'[q].rec.led /\ sent'[i].led => sent'[i].id < pub'[q].rec.id
    <3>1. \A q \in Busy', i \in 1..n : pub'[q].rec.led /\ sent[i].led => sent[i].id < pub'[q].rec.id
      BY <1>1, <1>11, <2>1 DEF LedsInOrder, n
    <3>2. \A q \in Busy' : ~(pub'[q].rec.led /\ rec.led)
      BY <1>1, <1>4, <1>11, <2>1 DEF LedsInOrder, rec
    <3> QED
      BY <1>7, <3>1, <3>2
  <2>6. \A i \in 1..Len(ring), x \in Indications' :
           ring[i].led /\ x.id > ring[i].id => x \in Range(ring)
    <3> SUFFICES ASSUME NEW i \in 1..Len(ring), NEW x \in Indications', ring[i].led, x.id > ring[i].id
                 PROVE  x \in Range(ring)
      OBVIOUS
    <3>1. CASE x \in Indications
      BY <1>1, <2>1, <3>1 DEF LedsInOrder
    <3>2. CASE x = rec /\ rec.led
      BY <1>1, <1>2, <2>1, <3>2 DEF LedsInOrder, rec
    <3> QED
      BY <1>16, <3>1, <3>2
  <2>7. \A i \in 1..Len(ring), q \in Publishers :
           (ring[i].led /\ pub'[q].at = "pushed" /\ pub'[q].rec.led /\ pub'[q].rec.id > ring[i].id)
              => pub'[q].rec \in Range(ring)
    BY <1>1, <1>9, <2>1 DEF LedsInOrder
  <2>8. \A i, j \in 1..Len(ring) : i < j /\ ring[i].led /\ ring[j].led => ring[i].id < ring[j].id
    BY <1>1, <2>1 DEF LedsInOrder
  <2> QED
    BY <1>2, <2>2, <2>4, <2>5, <2>6, <2>7, <2>8 DEF LedsInOrder
<1>18. TodoInOrder' /\ Stages'
  BY <1>2, ConnectionKept
<1>19. conn.pos \in 0..n
  BY <1>1, BusNumbers DEF n
<1>20. NewestIsOnItsWay'
  <2> SUFFICES ASSUME ~crossed, conn.at \in {"snapshot", "replay", "live"},
                      NEW i \in 1..conn.pos, sent'[i].led, NEW m, m = sent'[i].id
               PROVE  WillShow(m)'
    BY <1>2 DEF NewestIsOnItsWay, WillShow, InTodo, TodoAfter, InWire, WireAfter, Shown
  <2>1. i \in 1..n
    BY <1>6, <1>19
  <2>2. sent'[i] = sent[i]
    BY <1>6, <2>1
  <2>3. WillShow(m)
    BY <1>1, <2>2 DEF NewestIsOnItsWay
  <2> QED
    BY <1>2, <2>3 DEF WillShow, InTodo, TodoAfter, InWire, WireAfter, Shown
<1>21. FirstMissesNothing'
  <2> SUFFICES ASSUME First, conn.at \in {"replay", "live"}, ~conn.lagged, NEW i \in 1..Len(ring)
               PROVE  \/ ring[i] \in seen
                      \/ ring[i] \in Range(wire)
                      \/ \E l \in DOMAIN conn.todo : conn.todo[l] = ring[i]
                      \/ \E l \in (conn.pos + 1)..Len(sent') : sent'[l] = ring[i]
                      \/ \E q \in Publishers : pub'[q].at = "pushed" /\ pub'[q].rec = ring[i]
    <3>1. First' = First
      BY <1>2 DEF First
    <3>2. First => /\ conn.at \in {"off", "lead", "snapshot"} => conn.since = 0
                   /\ conn.at = "off" => cursor = 0
      BY <1>1 DEF FirstMissesNothing
    <3>3. conn' = conn /\ wire' = wire /\ ring' = ring /\ seen' = seen /\ cursor' = cursor
      BY <1>2
    <3> QED
      BY <3>1, <3>2, <3>3 DEF FirstMissesNothing
  <2>2. \/ ring[i] \in seen
        \/ ring[i] \in Range(wire)
        \/ \E l \in DOMAIN conn.todo : conn.todo[l] = ring[i]
        \/ \E l \in (conn.pos + 1)..n : sent[l] = ring[i]
        \/ \E q \in Publishers : pub[q].at = "pushed" /\ pub[q].rec = ring[i]
    BY <1>1 DEF FirstMissesNothing, n
  <2>3. CASE \E l \in (conn.pos + 1)..n : sent[l] = ring[i]
    <3>1. PICK l \in (conn.pos + 1)..n : sent[l] = ring[i]
      BY <2>3
    <3>2. l \in 1..n /\ l \in (conn.pos + 1)..Len(sent')
      BY <1>6, <1>19
    <3> QED
      BY <1>6, <3>1, <3>2
  <2>4. CASE ring[i] = rec
    <3>1. n + 1 \in (conn.pos + 1)..Len(sent')
      BY <1>6, <1>19
    <3> QED
      BY <1>6, <2>4, <3>1
  <2> QED
    BY <1>10, <2>2, <2>3, <2>4 DEF rec
<1> QED
  BY <1>12, <1>13, <1>14, <1>15, <1>17, <1>18, <1>20, <1>21 DEF BusSound

-----------------------------------------------------------------------------
(* The steps of the debug server's tracker *)

\* Nothing but the tracker's place and its cache changes.
LEMMA TrackerSound ==
    ASSUME BusSound, UNCHANGED <<busVars, conn, wire, clientVars>>,
           cache' \in Records, tracker' \in 0..Len(sent),
           \A i \in 1..tracker' : sent[i].led => sent[i].id <= cache'.id
    PROVE  BusSound'
<1>1. BusTypeOK /\ SlotsAreNewest /\ Sources
  BY DEF BusSound
<1>2. UNCHANGED <<epoch, stamped, pub, ring, sent, latest, conn, wire, cursor, seen, led, drops, crossed>>
  BY DEF busVars, clientVars
<1>3. Numbered' /\ LedsInOrder' /\ Out' = Out
  BY <1>2, BusKept
<1>4. TodoInOrder' /\ Stages' /\ NewestIsOnItsWay' /\ FirstMissesNothing'
  BY <1>2, ConnectionKept, NewestKept, FirstKept
<1>5. BusTypeOK'
  BY <1>1, <1>2 DEF BusTypeOK
<1>6. SlotsAreNewest'
  BY <1>1, <1>2, <1>3 DEF SlotsAreNewest
<1>7. Sources'
  BY <1>1, <1>2, <1>3 DEF Sources
<1> QED
  BY <1>3, <1>4, <1>5, <1>6, <1>7 DEF BusSound

\* The cache never goes back.
LEMMA StoredIs ==
    ASSUME BusTypeOK, NEW rec \in Records
    PROVE  /\ Stored(rec) \in Records /\ rec.id <= Stored(rec).id /\ cache.id <= Stored(rec).id
           /\ cache.id \in Nat /\ Stored(rec).id \in Nat
<1>1. cache \in Records
  BY DEF BusTypeOK
<1>2. cache.id \in Nat /\ rec.id \in Nat
  BY <1>1, Fields
<1> QED
  BY <1>1, <1>2 DEF Stored

\* The tracker takes the next record of the live channel.
LEMMA TrackerReceivesSound ==
    ASSUME BusSound, TrackerReceives  PROVE BusSound'
<1>1. BusTypeOK /\ SlotsAreNewest
  BY DEF BusSound
<1>2. /\ tracker < Len(sent) /\ tracker' = tracker + 1
      /\ cache' = IF sent[tracker + 1].led THEN Stored(sent[tracker + 1]) ELSE cache
      /\ UNCHANGED <<busVars, conn, wire, clientVars>>
  BY DEF TrackerReceives
<1>3. tracker \in 0..Len(sent) /\ Len(sent) \in Nat /\ sent \in Seq(Records)
  BY <1>1, BusNumbers
<1>4. tracker + 1 \in 1..Len(sent) /\ tracker' \in 0..Len(sent)
  BY <1>2, <1>3
<1> DEFINE rec == sent[tracker + 1]
<1>5. rec \in Records
  BY <1>3, <1>4, Elements
<1>6. \A i \in 1..Len(sent) : sent[i].id \in Nat
  BY <1>3, Elements, Fields
<1>7. /\ Stored(rec) \in Records /\ rec.id <= Stored(rec).id /\ cache.id <= Stored(rec).id
      /\ cache.id \in Nat /\ Stored(rec).id \in Nat /\ cache \in Records
  <2> HIDE DEF rec
  <2> QED
    BY <1>1, <1>5, StoredIs DEF BusTypeOK
<1>8. cache' \in Records
  BY <1>2, <1>7
<1>9. ASSUME NEW i \in 1..tracker', sent[i].led  PROVE sent[i].id <= cache'.id
  <2>1. i \in 1..tracker \/ i = tracker + 1
    BY <1>2, <1>3
  <2>2. CASE i = tracker + 1
    BY <1>2, <1>7, <1>9, <2>2
  <2>3. CASE i \in 1..tracker
    <3>1. sent[i].id <= cache.id /\ sent[i].id \in Nat
      BY <1>1, <1>3, <1>6, <1>9, <2>3 DEF SlotsAreNewest
    <3>2. cache' = cache \/ cache' = Stored(rec)
      BY <1>2
    <3> HIDE DEF rec
    <3> QED
      BY <1>7, <3>1, <3>2
  <2> QED
    BY <2>1, <2>2, <2>3
<1> QED
  BY <1>2, <1>4, <1>8, <1>9, TrackerSound

\* The tracker has missed some, and looks at the slot.
LEMMA TrackerLagsSound ==
    ASSUME BusSound, TrackerLags  PROVE BusSound'
<1>1. BusTypeOK /\ Numbered /\ SlotsAreNewest
  BY DEF BusSound
<1>2. /\ Len(sent) - tracker > Capacity /\ tracker' = Len(sent) - Capacity
      /\ cache' = IF latest = NoRecord THEN cache ELSE Stored(latest)
      /\ UNCHANGED <<busVars, conn, wire, clientVars>>
  BY DEF TrackerLags, Lags, Resumes
<1>3. /\ tracker \in 0..Len(sent) /\ Len(sent) \in Nat /\ sent \in Seq(Records)
      /\ Capacity \in Nat \ {0} /\ latest \in Records /\ cache \in Records
  BY <1>1, BusNumbers, Fields DEF BusTypeOK
<1>4. tracker' \in 0..Len(sent)
  BY <1>2, <1>3
<1>5. cache' \in Records /\ latest.id <= cache'.id /\ latest.id \in Nat /\ cache'.id \in Nat
  BY <1>1, <1>2, <1>3, StoredIs, Fields
<1>6. ASSUME NEW i \in 1..tracker', sent[i].led  PROVE sent[i].id <= cache'.id
  <2>1. i \in 1..Len(sent)
    BY <1>4
  <2>2. sent[i] \in Out
    BY <1>3, <2>1, Elements DEF Out
  <2>3. sent[i].id <= latest.id /\ sent[i].id \in Nat
    BY <1>1, <1>6, <2>2, OutRecords, Fields DEF SlotsAreNewest
  <2> QED
    BY <1>5, <2>3
<1> QED
  BY <1>2, <1>4, <1>5, <1>6, TrackerSound

-----------------------------------------------------------------------------
(* The steps of the connection *)

\* Nothing but the connection and its wire changes.
LEMMA SocketKeeps ==
    ASSUME BusSound, UNCHANGED <<busVars, tracker, cache, clientVars>>
    PROVE  /\ Numbered' /\ SlotsAreNewest' /\ LedsInOrder' /\ Out' = Out
           /\ UNCHANGED <<epoch, stamped, pub, ring, sent, latest, tracker, cache, cursor, seen, led, drops, crossed>>
<1>1. SlotsAreNewest
  BY DEF BusSound
<1>2. UNCHANGED <<epoch, stamped, pub, ring, sent, latest, tracker, cache, cursor, seen, led, drops, crossed>>
  BY DEF busVars, clientVars
<1>3. Numbered' /\ LedsInOrder' /\ Out' = Out
  BY <1>2, BusKept
<1>4. SlotsAreNewest'
  BY <1>1, <1>2, <1>3 DEF SlotsAreNewest
<1> QED
  BY <1>2, <1>3, <1>4

\* A connection whose fields are known.
Socket(at, pos, todo, since, lagged) ==
    [at |-> at, pos |-> pos, todo |-> todo, since |-> since, lagged |-> lagged]

\* The fields of a connection.
LEMMA SocketFields ==
    ASSUME NEW at, NEW pos, NEW todo, NEW since, NEW lagged
    PROVE  /\ Socket(at, pos, todo, since, lagged).at = at
           /\ Socket(at, pos, todo, since, lagged).pos = pos
           /\ Socket(at, pos, todo, since, lagged).todo = todo
           /\ Socket(at, pos, todo, since, lagged).since = since
           /\ Socket(at, pos, todo, since, lagged).lagged = lagged
  BY DEF Socket

\* What the connection is after a step that leaves it in order.
LEMMA SocketTyped ==
    ASSUME BusSound, UNCHANGED <<busVars, tracker, cache, clientVars>>,
           NEW at \in {"off", "lead", "snapshot", "replay", "live"}, NEW pos \in 0..Len(sent),
           NEW todo, NEW since \in 0..MaxRecords, NEW lagged,
           conn' = Socket(at, pos, todo, since, lagged),
           DOMAIN todo \subseteq 1..Capacity, todo \in [DOMAIN todo -> Records],
           at # "replay" => DOMAIN todo = {},
           \A k \in DOMAIN todo : todo[k] \in Out,
           wire' \in Seq(Records), \A k \in 1..Len(wire') : wire'[k] \in Out,
           at \in {"off", "lead"} => wire' = <<>>
    PROVE  /\ BusTypeOK' /\ Stages' /\ Sources'
           /\ conn'.at = at /\ conn'.pos = pos /\ conn'.todo = todo /\ conn'.since = since
           /\ conn'.lagged = lagged
<1>1. /\ Out' = Out
      /\ UNCHANGED <<epoch, stamped, pub, ring, sent, latest, tracker, cache, cursor, seen, led, drops, crossed>>
  BY SocketKeeps
<1>2. BusTypeOK /\ Stages /\ Sources
  BY DEF BusSound
<1>3. /\ conn'.at = at /\ conn'.pos = pos /\ conn'.todo = todo /\ conn'.since = since
      /\ conn'.lagged = lagged
  BY SocketFields
<1>4. conn' = [at |-> conn'.at, pos |-> conn'.pos, todo |-> conn'.todo, since |-> conn'.since,
               lagged |-> conn'.lagged]
  BY <1>3 DEF Socket
<1>5. BusTypeOK'
  BY <1>1, <1>2, <1>3 DEF BusTypeOK
<1>6. Stages'
  BY <1>1, <1>2, <1>3, <1>4 DEF Stages
<1>7. Sources'
  BY <1>1, <1>2, <1>3 DEF Sources
<1> QED
  BY <1>3, <1>5, <1>6, <1>7

\* A connection by its fields.
LEMMA SocketIs ==
    ASSUME BusSound
    PROVE  /\ conn = Socket(conn.at, conn.pos, conn.todo, conn.since, conn.lagged)
           /\ conn.since \in 0..MaxRecords /\ conn.pos \in 0..Len(sent) /\ Len(sent) \in Nat
           /\ DOMAIN conn.todo \subseteq 1..Capacity /\ conn.todo \in [DOMAIN conn.todo -> Records]
           /\ (conn.at # "replay" => DOMAIN conn.todo = {})
           /\ \A k \in DOMAIN conn.todo : conn.todo[k] \in Out
           /\ wire \in Seq(Records) /\ \A k \in 1..Len(wire) : wire[k] \in Out
           /\ Len(wire) \in Nat
  BY BusNumbers DEF BusSound, Stages, Sources, BusTypeOK, Socket

\* One more record on the wire is the last that comes.
LEMMA WireGrows ==
    ASSUME wire \in Seq(Records), NEW x \in Records, wire' = Append(wire, x)
    PROVE  /\ wire' \in Seq(Records) /\ Len(wire') = Len(wire) + 1 /\ Len(wire) \in Nat
           /\ Range(wire') = Range(wire) \cup {x} /\ wire'[Len(wire) + 1] = x
           /\ \A k \in 1..Len(wire) : wire'[k] = wire[k]
           /\ \A k \in 1..Len(wire') : (k \in 1..Len(wire) /\ wire'[k] = wire[k])
                                       \/ (k = Len(wire) + 1 /\ wire'[k] = x)
<1>1. /\ wire' \in Seq(Records) /\ Len(wire') = Len(wire) + 1 /\ Len(wire) \in Nat
      /\ Range(wire') = Range(wire) \cup {x} /\ wire'[Len(wire) + 1] = x
      /\ \A k \in 1..Len(wire) : wire'[k] = wire[k]
  BY AtTheEnd
<1> QED
  BY <1>1

\* What is sent last is on its way behind everything.
LEMMA LastIsNew ==
    ASSUME wire \in Seq(Records), NEW x \in Records, wire' = Append(wire, x),
           led' = led, epoch' = epoch, NEW m, x.led => x.id >= m
    PROVE  /\ InWire(m) => InWire(m)'
           /\ WireAfter(m, 1) => WireAfter(m, 1)'
           /\ x.led => InWire(m)'
           /\ Shown(m) => Shown(m)'
<1>1. /\ Len(wire') = Len(wire) + 1 /\ Len(wire) \in Nat /\ wire'[Len(wire) + 1] = x
      /\ \A k \in 1..Len(wire) : wire'[k] = wire[k]
      /\ \A k \in 1..Len(wire') : (k \in 1..Len(wire) /\ wire'[k] = wire[k])
                                  \/ (k = Len(wire) + 1 /\ wire'[k] = x)
  BY WireGrows
<1>2. ASSUME NEW n \in 1..Len(wire), WireAfter(m, n)  PROVE WireAfter(m, n)'
  <2> SUFFICES ASSUME NEW k \in n..Len(wire'), wire'[k].led  PROVE wire'[k].id >= m
    BY DEF WireAfter
  <2>1. k \in 1..Len(wire')
    BY <1>1
  <2>2. CASE wire'[k] = x
    BY <2>2
  <2>3. CASE k \in 1..Len(wire) /\ wire'[k] = wire[k]
    <3>1. k \in n..Len(wire)
      BY <2>3
    <3> QED
      BY <1>2, <2>3, <3>1 DEF WireAfter
  <2> QED
    BY <1>1, <2>1, <2>2, <2>3
<1>3. InWire(m) => InWire(m)'
  <2> SUFFICES ASSUME InWire(m)  PROVE InWire(m)'
    OBVIOUS
  <2>1. PICK n \in 1..Len(wire) : wire[n].led /\ WireAfter(m, n)
    BY DEF InWire
  <2>2. WireAfter(m, n)'
    BY <1>2, <2>1
  <2>3. n \in 1..Len(wire') /\ wire'[n].led
    BY <1>1, <2>1
  <2> QED
    BY <2>2, <2>3 DEF InWire
<1>4. WireAfter(m, 1) => WireAfter(m, 1)'
  <2> SUFFICES ASSUME WireAfter(m, 1), NEW k \in 1..Len(wire'), wire'[k].led  PROVE wire'[k].id >= m
    BY DEF WireAfter
  <2> QED
    BY <1>1 DEF WireAfter
<1>5. x.led => InWire(m)'
  <2> SUFFICES ASSUME x.led  PROVE InWire(m)'
    OBVIOUS
  <2>0. PICK n \in Nat : n = Len(wire) + 1
    BY <1>1
  <2>1. n \in 1..Len(wire') /\ wire'[n].led /\ Len(wire') = n
    BY <1>1, <2>0
  <2>2. \A k \in n..Len(wire') : wire'[k] = x
    BY <1>1, <2>0
  <2>3. WireAfter(m, n)'
    BY <2>2 DEF WireAfter
  <2> QED
    BY <2>1, <2>3 DEF InWire
<1>6. Shown(m) => Shown(m)'
  BY DEF Shown
<1> QED
  BY <1>3, <1>4, <1>5, <1>6

\* A terminal connects.
LEMMA ConnectSound ==
    ASSUME BusSound, Connect  PROVE BusSound'
<1>1. BusTypeOK /\ Stages /\ FirstMissesNothing
  BY DEF BusSound
<1>2. conn.at = "off" /\ UNCHANGED <<busVars, tracker, cache, wire, clientVars>>
  BY DEF Connect
<1>3. PICK since \in {0, cursor} : conn' = [Off EXCEPT !.at = "lead", !.since = since, !.pos = Len(sent)]
  BY DEF Connect
<1>4. conn' = Socket("lead", Len(sent), <<>>, since, FALSE)
  BY <1>3 DEF Off, Socket
<1>5. cursor \in 0..MaxRecords /\ MaxRecords \in Nat /\ Len(sent) \in Nat
  BY <1>1, BusNumbers, Fields DEF BusTypeOK
<1>6. since \in 0..MaxRecords /\ Len(sent) \in 0..Len(sent)
  BY <1>5
<1>7. wire = <<>> /\ wire \in Seq(Records) /\ \A k \in 1..Len(wire) : wire[k] \in Out
  BY <1>1, <1>2, SocketIs DEF Stages
<1>8. DOMAIN <<>> = {} /\ <<>> \in [{} -> Records]
  OBVIOUS
<1>9. /\ BusTypeOK' /\ Stages' /\ Sources'
      /\ conn'.at = "lead" /\ conn'.todo = <<>> /\ conn'.since = since
  <2>1. "lead" \in {"off", "lead", "snapshot", "replay", "live"} /\ DOMAIN <<>> \subseteq 1..Capacity
        /\ \A k \in DOMAIN <<>> : <<>>[k] \in Out
    BY <1>8
  <2>2. wire' = wire
    BY <1>2
  <2> QED
    BY <1>2, <1>4, <1>6, <1>7, <1>8, <2>1, <2>2, SocketTyped
<1>10. /\ Numbered' /\ SlotsAreNewest' /\ LedsInOrder'
       /\ UNCHANGED <<epoch, stamped, pub, ring, sent, latest, tracker, cache, cursor, seen, led, drops, crossed>>
  BY <1>2, SocketKeeps
<1>11. TodoInOrder'
  BY <1>8, <1>9 DEF TodoInOrder
<1>12. FirstMissesNothing'
  <2>1. First => cursor = 0
    BY <1>1, <1>2 DEF FirstMissesNothing
  <2>2. First' = First
    BY <1>10 DEF First
  <2> QED
    BY <1>9, <2>1, <2>2 DEF FirstMissesNothing
<1>13. NewestIsOnItsWay'
  BY <1>9 DEF NewestIsOnItsWay
<1> QED
  BY <1>9, <1>10, <1>11, <1>12, <1>13 DEF BusSound

\* The slot is at least as new as what was sent before.
LEMMA SlotShows ==
    ASSUME BusSound, NEW i \in 1..Len(sent), sent[i].led
    PROVE  /\ latest # NoRecord /\ latest \in Records /\ latest \in Out /\ latest.led
           /\ latest.id >= sent[i].id
<1>1. BusTypeOK /\ Numbered /\ SlotsAreNewest
  BY DEF BusSound
<1>2. sent[i] \in Out
  BY <1>1, BusNumbers, Elements DEF Out
<1>3. sent[i].id <= latest.id /\ sent[i].id \in Nat /\ sent[i].id \in 1..stamped /\ latest \in Records
  BY <1>1, <1>2, OutRecords, Fields DEF SlotsAreNewest, BusTypeOK
<1>4. latest.id \in Nat /\ latest.id # 0
  BY <1>3, Fields
<1>5. latest # NoRecord
  BY <1>4, Fields
<1> QED
  BY <1>1, <1>3, <1>4, <1>5 DEF SlotsAreNewest

\* After the slot has been sent, and nothing waits to be replayed, everything sent before is covered.
LEMMA SlotCovers ==
    ASSUME BusSound, UNCHANGED <<busVars, tracker, cache, clientVars>>,
           DOMAIN conn'.todo = {}, conn'.pos \in 0..Len(sent),
           wire' = IF latest = NoRecord THEN wire ELSE Append(wire, latest)
    PROVE  NewestIsOnItsWay'
<1>1. sent' = sent /\ led' = led /\ epoch' = epoch
  BY SocketKeeps
<1>2. wire \in Seq(Records) /\ Len(sent) \in Nat
  BY SocketIs
<1> SUFFICES ASSUME NEW i \in 1..conn'.pos, sent[i].led, NEW m, m = sent[i].id  PROVE WillShow(m)'
  BY <1>1 DEF NewestIsOnItsWay, WillShow, InTodo, TodoAfter, InWire, WireAfter, Shown
<1>3. i \in 1..Len(sent)
  BY <1>2
<1>4. latest # NoRecord /\ latest \in Records /\ latest.led /\ latest.id >= m
  BY <1>3, SlotShows
<1>5. InWire(m)'
  BY <1>1, <1>2, <1>4, LastIsNew
<1>6. TodoAfter(m)'
  BY DEF TodoAfter
<1> QED
  BY <1>5, <1>6 DEF WillShow

\* The slot goes onto the wire, if it holds a record.
LEMMA SlotIsSent ==
    ASSUME BusSound, wire' = IF latest = NoRecord THEN wire ELSE Append(wire, latest)
    PROVE  wire' \in Seq(Records) /\ \A k \in 1..Len(wire') : wire'[k] \in Out
<1>1. wire \in Seq(Records) /\ \A k \in 1..Len(wire) : wire[k] \in Out
  BY SocketIs
<1>2. CASE latest = NoRecord
  BY <1>1, <1>2
<1>3. CASE latest # NoRecord
  <2>1. latest \in Records /\ latest \in Out
    BY <1>3 DEF BusSound, SlotsAreNewest, BusTypeOK
  <2> QED
    BY <1>1, <1>3, <2>1, WireGrows
<1> QED
  BY <1>2, <1>3

\* The slot is sent first.
LEMMA LeadsSound ==
    ASSUME BusSound, Leads  PROVE BusSound'
<1>1. conn.at = "lead" /\ UNCHANGED <<busVars, tracker, cache, clientVars>>
      /\ conn' = [conn EXCEPT !.at = "snapshot"]
      /\ wire' = IF latest = NoRecord THEN wire ELSE Append(wire, latest)
  BY DEF Leads
<1>2. /\ conn = Socket(conn.at, conn.pos, conn.todo, conn.since, conn.lagged)
      /\ conn.since \in 0..MaxRecords /\ conn.pos \in 0..Len(sent)
      /\ DOMAIN conn.todo \subseteq 1..Capacity /\ conn.todo \in [DOMAIN conn.todo -> Records]
      /\ DOMAIN conn.todo = {}
  BY <1>1, SocketIs
<1>3. conn' = Socket("snapshot", conn.pos, conn.todo, conn.since, conn.lagged)
  BY <1>1, <1>2 DEF Socket
<1>4. wire' \in Seq(Records) /\ \A k \in 1..Len(wire') : wire'[k] \in Out
  BY <1>1, SlotIsSent
<1>5. /\ BusTypeOK' /\ Stages' /\ Sources'
      /\ conn'.at = "snapshot" /\ conn'.todo = conn.todo /\ conn'.since = conn.since
      /\ conn'.pos = conn.pos
  BY <1>1, <1>2, <1>3, <1>4, SocketTyped
<1>6. /\ Numbered' /\ SlotsAreNewest' /\ LedsInOrder'
      /\ UNCHANGED <<epoch, cursor, drops>>
  BY <1>1, SocketKeeps
<1>7. TodoInOrder'
  BY <1>2, <1>5 DEF TodoInOrder
<1>8. FirstMissesNothing'
  <2>1. First' = First /\ (First => conn.since = 0)
    BY <1>1, <1>6 DEF First, BusSound, FirstMissesNothing
  <2> QED
    BY <1>5, <2>1 DEF FirstMissesNothing
<1>9. NewestIsOnItsWay'
  BY <1>1, <1>2, <1>5, SlotCovers
<1> QED
  BY <1>5, <1>6, <1>7, <1>8, <1>9 DEF BusSound

\* The ring is read: what it has of the indications is all that is newer than one it has.
LEMMA SnapshotSound ==
    ASSUME BusSound, Snapshot  PROVE BusSound'
<1>1. conn.at = "snapshot" /\ UNCHANGED <<busVars, tracker, cache, wire, clientVars>>
      /\ conn' = [conn EXCEPT !.at = "replay", !.todo = SnapshotSince(conn.since)]
  BY DEF Snapshot
<1>2. BusTypeOK /\ Numbered /\ Sources /\ LedsInOrder /\ FirstMissesNothing /\ NewestIsOnItsWay
  BY DEF BusSound
<1>3. /\ conn = Socket(conn.at, conn.pos, conn.todo, conn.since, conn.lagged)
      /\ conn.since \in 0..MaxRecords /\ conn.pos \in 0..Len(sent)
      /\ DOMAIN conn.todo = {}
      /\ wire \in Seq(Records) /\ \A k \in 1..Len(wire) : wire[k] \in Out
  BY <1>1, SocketIs
<1> DEFINE todo == SnapshotSince(conn.since)
<1>4. conn' = Socket("replay", conn.pos, todo, conn.since, conn.lagged)
  <2> HIDE DEF todo
  <2> QED
    BY <1>1, <1>3 DEF Socket, todo
<1>5. /\ ring \in Seq(Records) /\ Len(ring) \in Nat /\ DOMAIN ring = 1..Len(ring)
      /\ \A i \in 1..Len(ring) : ring[i] \in Records
      /\ Len(ring) <= Capacity /\ Capacity \in Nat
  BY <1>2, BusNumbers, Elements, Fields DEF BusTypeOK
<1>6. /\ DOMAIN todo = {i \in 1..Len(ring) : ring[i].id > conn.since}
      /\ \A i \in DOMAIN todo : todo[i] = ring[i]
  BY <1>5 DEF SnapshotSince
<1>7. /\ DOMAIN todo \subseteq 1..Capacity /\ todo \in [DOMAIN todo -> Records]
  <2>1. todo = [i \in DOMAIN todo |-> todo[i]]
    BY DEF SnapshotSince
  <2> HIDE DEF todo
  <2>2. \A i \in DOMAIN todo : todo[i] \in Records
    BY <1>5, <1>6
  <2>3. DOMAIN todo \subseteq 1..Capacity
    BY <1>5, <1>6
  <2> QED
    BY <2>1, <2>2, <2>3
<1> HIDE DEF todo
<1>8. \A i \in 1..Len(ring) : ring[i] \in Out
  <2> SUFFICES ASSUME NEW i \in 1..Len(ring)  PROVE ring[i] \in Out
    OBVIOUS
  <2>1. CASE ring[i] \in Range(sent)
    BY <2>1 DEF Out
  <2>2. CASE \E q \in Publishers : pub[q].at = "pushed" /\ pub[q].rec = ring[i]
    <3>1. PICK q \in Publishers : pub[q].at = "pushed" /\ pub[q].rec = ring[i]
      BY <2>2
    <3>2. q \in Passed
      BY <3>1 DEF Passed
    <3> QED
      BY <3>1, <3>2 DEF Out
  <2> QED
    BY <1>2, <2>1, <2>2 DEF Sources
<1>9. \A k \in DOMAIN todo : todo[k] \in Out
  BY <1>6, <1>8
<1>10. /\ BusTypeOK' /\ Stages' /\ Sources'
       /\ conn'.at = "replay" /\ conn'.todo = todo /\ conn'.since = conn.since
       /\ conn'.pos = conn.pos /\ conn'.lagged = conn.lagged
  <2>1. /\ wire' = wire /\ "replay" \in {"off", "lead", "snapshot", "replay", "live"}
        /\ "replay" \notin {"off", "lead"}
    BY <1>1
  <2> QED
    BY <1>1, <1>3, <1>4, <1>7, <1>9, <2>1, SocketTyped
<1>11. /\ Numbered' /\ SlotsAreNewest' /\ LedsInOrder'
       /\ UNCHANGED <<epoch, pub, ring, sent, cursor, seen, led, drops, crossed>>
  BY <1>1, SocketKeeps
<1>12. TodoInOrder'
  <2> SUFFICES ASSUME ~crossed, NEW i \in DOMAIN todo, NEW j \in DOMAIN todo, i < j,
                      todo[i].led, todo[j].led
               PROVE  todo[i].id < todo[j].id
    BY <1>10, <1>11 DEF TodoInOrder
  <2> QED
    BY <1>2, <1>6 DEF LedsInOrder
<1>13. FirstMissesNothing'
  <2> SUFFICES ASSUME First, NEW i \in 1..Len(ring)  PROVE \E k \in DOMAIN todo : todo[k] = ring[i]
    <3>1. First' = First /\ ring' = ring
      BY <1>11 DEF First
    <3> QED
      BY <1>10, <3>1 DEF FirstMissesNothing
  <2>1. conn.since = 0
    BY <1>1, <1>2 DEF FirstMissesNothing
  <2>2. ring[i].id \in 1..stamped /\ stamped \in Nat
    BY <1>2, <1>8, OutRecords, BusNumbers
  <2>3. i \in DOMAIN todo
    BY <1>6, <2>1, <2>2
  <2> QED
    BY <1>6, <2>3
<1>14. NewestIsOnItsWay'
  <2> SUFFICES ASSUME ~crossed, NEW i \in 1..conn.pos, sent[i].led, NEW m, m = sent[i].id
               PROVE  WillShow(m)'
    BY <1>10, <1>11 DEF NewestIsOnItsWay, WillShow, InTodo, TodoAfter, InWire, WireAfter, Shown
  <2>1. WillShow(m)
    BY <1>1, <1>2 DEF NewestIsOnItsWay
  <2>2. (InWire(m) \/ (WireAfter(m, 1) /\ Shown(m)))'
    <3>1. InWire(m) \/ (WireAfter(m, 1) /\ Shown(m))
      BY <1>3, <2>1 DEF WillShow, InTodo
    <3> QED
      BY <1>1, <1>11, <3>1 DEF InWire, WireAfter, Shown
  <2>3. CASE \A k \in DOMAIN todo : todo[k].led => todo[k].id >= m
    <3>1. TodoAfter(m)'
      BY <1>10, <2>3 DEF TodoAfter
    <3> QED
      BY <2>2, <3>1 DEF WillShow
  <2>4. CASE \E k \in DOMAIN todo : todo[k].led /\ ~(todo[k].id >= m)
    <3>1. PICK k \in DOMAIN todo : todo[k].led /\ ~(todo[k].id >= m)
      BY <2>4
    <3>2. k \in 1..Len(ring) /\ ring[k] = todo[k] /\ ring[k].id > conn.since
          /\ ring[k].id \in Nat
      BY <1>5, <1>6, <3>1, Fields
    <3>3. i \in 1..Len(sent) /\ sent[i] \in Records /\ sent[i] \in Indications
      <4>1. i \in 1..Len(sent)
        BY <1>2, <1>3, BusNumbers
      <4> QED
        BY <1>2, <4>1, BusNumbers, Elements DEF Indications
    <3>4. m \in Nat /\ m > ring[k].id /\ conn.since \in Nat
      BY <1>3, <3>1, <3>2, <3>3, Fields
    <3>5. sent[i] \in Range(ring)
      BY <1>2, <3>1, <3>2, <3>3, <3>4 DEF LedsInOrder
    <3>6. PICK l \in 1..Len(ring) : ring[l] = sent[i]
      BY <1>5, <3>5, Elements
    <3>7. ring[l].id > conn.since
      BY <3>2, <3>4, <3>6
    <3>8. l \in DOMAIN todo /\ todo[l] = sent[i]
      BY <1>6, <3>6, <3>7
    <3>9. todo[l].led /\ todo[l].id >= m
      BY <3>4, <3>8
    <3>10. InTodo(m)'
      BY <1>10, <3>8, <3>9 DEF InTodo
    <3> QED
      BY <3>10 DEF WillShow
  <2> QED
    BY <2>3, <2>4
<1> QED
  BY <1>10, <1>11, <1>12, <1>13, <1>14 DEF BusSound

\* Nothing is left to be replayed: the live channel is next.
LEMMA ReplayEndsSound ==
    ASSUME BusSound, conn.at = "replay", DOMAIN conn.todo = {}, conn' = [conn EXCEPT !.at = "live"],
           UNCHANGED <<busVars, tracker, cache, wire, clientVars>>
    PROVE  BusSound'
<1>1. BusTypeOK /\ FirstMissesNothing /\ NewestIsOnItsWay
  BY DEF BusSound
<1>2. /\ conn = Socket(conn.at, conn.pos, conn.todo, conn.since, conn.lagged)
      /\ conn.since \in 0..MaxRecords /\ conn.pos \in 0..Len(sent)
      /\ DOMAIN conn.todo \subseteq 1..Capacity /\ conn.todo \in [DOMAIN conn.todo -> Records]
      /\ \A k \in DOMAIN conn.todo : conn.todo[k] \in Out
      /\ wire \in Seq(Records) /\ \A k \in 1..Len(wire) : wire[k] \in Out
  BY SocketIs
<1>3. conn' = Socket("live", conn.pos, conn.todo, conn.since, conn.lagged)
  BY <1>2 DEF Socket
<1>4. /\ BusTypeOK' /\ Stages' /\ Sources'
      /\ conn'.at = "live" /\ conn'.todo = conn.todo /\ conn'.since = conn.since
      /\ conn'.pos = conn.pos /\ conn'.lagged = conn.lagged
  <2>1. /\ wire' = wire /\ "live" \in {"off", "lead", "snapshot", "replay", "live"}
        /\ "live" \notin {"off", "lead"}
    OBVIOUS
  <2> QED
    BY <1>2, <1>3, <2>1, SocketTyped
<1>5. /\ Numbered' /\ SlotsAreNewest' /\ LedsInOrder'
      /\ UNCHANGED <<epoch, pub, ring, sent, cursor, seen, led, drops, crossed>>
  BY SocketKeeps
<1>6. TodoInOrder'
  BY <1>4 DEF TodoInOrder
<1>7. FirstMissesNothing'
  <2>1. First' = First
    BY <1>5 DEF First
  <2>2. wire' = wire
    OBVIOUS
  <2> QED
    BY <1>1, <1>4, <1>5, <2>1, <2>2 DEF FirstMissesNothing
<1>8. NewestIsOnItsWay'
  <2>1. wire' = wire
    OBVIOUS
  <2> QED
    BY <1>1, <1>4, <1>5, <2>1 DEF NewestIsOnItsWay, WillShow, InTodo, TodoAfter, InWire, WireAfter, Shown
<1> QED
  BY <1>4, <1>5, <1>6, <1>7, <1>8 DEF BusSound

\* The next record is replayed.
LEMMA ReplaysNextSound ==
    ASSUME BusSound, conn.at = "replay", ReplaysNext,
           UNCHANGED <<busVars, tracker, cache, clientVars>>
    PROVE  BusSound'
<1>1. BusTypeOK /\ TodoInOrder /\ FirstMissesNothing /\ NewestIsOnItsWay
  BY DEF BusSound
<1>2. PICK i \in DOMAIN conn.todo :
         /\ \A j \in DOMAIN conn.todo : i <= j
         /\ conn' = [conn EXCEPT !.todo = [j \in DOMAIN @ \ {i} |-> @[j]]]
         /\ wire' = Append(wire, conn.todo[i])
  BY DEF ReplaysNext
<1>3. /\ conn = Socket(conn.at, conn.pos, conn.todo, conn.since, conn.lagged)
      /\ conn.since \in 0..MaxRecords /\ conn.pos \in 0..Len(sent)
      /\ DOMAIN conn.todo \subseteq 1..Capacity /\ conn.todo \in [DOMAIN conn.todo -> Records]
      /\ \A k \in DOMAIN conn.todo : conn.todo[k] \in Out
      /\ wire \in Seq(Records) /\ (\A k \in 1..Len(wire) : wire[k] \in Out)
      /\ Len(sent) \in Nat /\ DOMAIN conn.todo \subseteq Nat
  BY <1>1, SocketIs, BusNumbers
<1> DEFINE todo == [j \in DOMAIN conn.todo \ {i} |-> conn.todo[j]]
           x == conn.todo[i]
<1>4. conn' = Socket("replay", conn.pos, todo, conn.since, conn.lagged)
  <2>1. conn' = [conn EXCEPT !.todo = todo]
    BY <1>2
  <2> HIDE DEF todo
  <2> QED
    BY <1>3, <2>1 DEF Socket
<1>5. /\ DOMAIN todo = DOMAIN conn.todo \ {i} /\ todo \in [DOMAIN todo -> Records]
      /\ \A k \in DOMAIN todo : todo[k] = conn.todo[k]
  BY <1>3
<1>6. x \in Records /\ x \in Out
  BY <1>3
<1> HIDE DEF todo, x
<1>7. wire' = Append(wire, x)
  BY <1>2 DEF x
<1>8. /\ wire' \in Seq(Records) /\ Range(wire') = Range(wire) \cup {x}
      /\ \A k \in 1..Len(wire') : wire'[k] \in Out
  BY <1>3, <1>6, <1>7, WireGrows
<1>9. /\ BusTypeOK' /\ Stages' /\ Sources'
      /\ conn'.at = "replay" /\ conn'.todo = todo /\ conn'.since = conn.since
      /\ conn'.pos = conn.pos /\ conn'.lagged = conn.lagged
  <2>1. /\ "replay" \in {"off", "lead", "snapshot", "replay", "live"}
        /\ "replay" \notin {"off", "lead"}
    OBVIOUS
  <2>2. DOMAIN todo \subseteq 1..Capacity /\ \A k \in DOMAIN todo : todo[k] \in Out
    BY <1>3, <1>5
  <2>3. todo \in [DOMAIN todo -> Records]
    BY <1>5
  <2>4. conn.since \in 0..MaxRecords /\ conn.pos \in 0..Len(sent)
    BY <1>3
  <2>5. wire' \in Seq(Records) /\ \A k \in 1..Len(wire') : wire'[k] \in Out
    BY <1>8
  <2> QED
    BY <1>4, <2>1, <2>2, <2>3, <2>4, <2>5, SocketTyped
<1>10. /\ Numbered' /\ SlotsAreNewest' /\ LedsInOrder'
       /\ UNCHANGED <<epoch, pub, ring, sent, cursor, seen, led, drops, crossed>>
  BY SocketKeeps
<1>11. TodoInOrder'
  BY <1>1, <1>5, <1>9, <1>10 DEF TodoInOrder
<1>12. FirstMissesNothing'
  <2> SUFFICES ASSUME First, ~conn.lagged, NEW l \in 1..Len(ring)
               PROVE  \/ ring[l] \in seen
                      \/ ring[l] \in Range(wire')
                      \/ \E k \in DOMAIN todo : todo[k] = ring[l]
                      \/ \E k \in (conn.pos + 1)..Len(sent) : sent[k] = ring[l]
                      \/ \E q \in Publishers : pub[q].at = "pushed" /\ pub[q].rec = ring[l]
    <3>1. First' = First
      BY <1>10 DEF First
    <3> QED
      BY <1>9, <1>10, <3>1 DEF FirstMissesNothing
  <2>1. \/ ring[l] \in seen
        \/ ring[l] \in Range(wire)
        \/ \E k \in DOMAIN conn.todo : conn.todo[k] = ring[l]
        \/ \E k \in (conn.pos + 1)..Len(sent) : sent[k] = ring[l]
        \/ \E q \in Publishers : pub[q].at = "pushed" /\ pub[q].rec = ring[l]
    BY <1>1 DEF FirstMissesNothing
  <2>2. CASE \E k \in DOMAIN conn.todo : conn.todo[k] = ring[l]
    <3>1. PICK k \in DOMAIN conn.todo : conn.todo[k] = ring[l]
      BY <2>2
    <3>2. CASE k = i
      BY <1>8, <3>1, <3>2 DEF x
    <3>3. CASE k # i
      BY <1>5, <3>1, <3>3
    <3> QED
      BY <3>2, <3>3
  <2> QED
    BY <1>8, <2>1, <2>2
<1>13. NewestIsOnItsWay'
  <2> SUFFICES ASSUME ~crossed, NEW l \in 1..conn.pos, sent[l].led, NEW m, m = sent[l].id
               PROVE  WillShow(m)'
    BY <1>9, <1>10 DEF NewestIsOnItsWay, WillShow, InTodo, TodoAfter, InWire, WireAfter, Shown
  <2>1. WillShow(m)
    BY <1>1 DEF NewestIsOnItsWay
  <2>2. m \in Nat
    <3>1. l \in 1..Len(sent)
      BY <1>3
    <3> QED
      BY <1>1, <3>1, BusNumbers, Elements, Fields
  <2>3. led' = led /\ epoch' = epoch
    BY <1>10
  <2>4. CASE InTodo(m)
    <3>1. PICK k \in DOMAIN conn.todo : conn.todo[k].led /\ conn.todo[k].id >= m
      BY <2>4 DEF InTodo
    <3>2. CASE k = i
      <4>1. x.led /\ x.id >= m /\ x.id \in Nat
        BY <1>6, <3>1, <3>2, Fields DEF x
      <4>2. InWire(m)'
        BY <1>3, <1>6, <1>7, <2>3, <4>1, LastIsNew
      <4>3. ASSUME NEW j \in DOMAIN todo, todo[j].led  PROVE todo[j].id >= m
        <5>1. j \in DOMAIN conn.todo /\ i < j /\ todo[j] = conn.todo[j] /\ conn.todo[j] \in Records
          BY <1>2, <1>3, <1>5
        <5>2. x.id < todo[j].id
          BY <1>1, <4>1, <4>3, <5>1 DEF TodoInOrder, x
        <5>3. todo[j].id \in Nat
          BY <5>1, Fields
        <5> QED
          BY <2>2, <4>1, <5>2, <5>3
      <4>4. TodoAfter(m)'
        BY <1>9, <4>3 DEF TodoAfter
      <4> QED
        BY <4>2, <4>4 DEF WillShow
    <3>3. CASE k # i
      <4>1. k \in DOMAIN todo /\ todo[k].led /\ todo[k].id >= m
        BY <1>5, <3>1, <3>3
      <4>2. InTodo(m)'
        BY <1>9, <4>1 DEF InTodo
      <4> QED
        BY <4>2 DEF WillShow
    <3> QED
      BY <3>2, <3>3
  <2>5. CASE TodoAfter(m) /\ (InWire(m) \/ (WireAfter(m, 1) /\ Shown(m)))
    <3>1. x.led => x.id >= m
      BY <2>5 DEF TodoAfter, x
    <3>2. InWire(m)' \/ (WireAfter(m, 1)' /\ Shown(m)')
      BY <1>3, <1>6, <1>7, <2>3, <2>5, <3>1, LastIsNew
    <3>3. TodoAfter(m)'
      BY <1>5, <1>9, <2>5 DEF TodoAfter
    <3> QED
      BY <3>2, <3>3 DEF WillShow
  <2> QED
    BY <2>1, <2>4, <2>5 DEF WillShow
<1> QED
  BY <1>9, <1>10, <1>11, <1>12, <1>13 DEF BusSound

\* The next record of the live channel is sent.
LEMMA SendsLiveSound ==
    ASSUME BusSound, SendsLive  PROVE BusSound'
<1>1. /\ conn.at = "live" /\ conn.pos < Len(sent)
      /\ conn' = [conn EXCEPT !.pos = @ + 1]
      /\ wire' = Append(wire, sent[conn.pos + 1])
      /\ UNCHANGED <<busVars, tracker, cache, clientVars>>
  BY DEF SendsLive
<1>2. BusTypeOK /\ LedsInOrder /\ FirstMissesNothing /\ NewestIsOnItsWay
  BY DEF BusSound
<1>3. /\ conn = Socket(conn.at, conn.pos, conn.todo, conn.since, conn.lagged)
      /\ conn.since \in 0..MaxRecords /\ conn.pos \in 0..Len(sent)
      /\ DOMAIN conn.todo \subseteq 1..Capacity /\ conn.todo \in [DOMAIN conn.todo -> Records]
      /\ DOMAIN conn.todo = {}
      /\ wire \in Seq(Records) /\ (\A k \in 1..Len(wire) : wire[k] \in Out)
      /\ Len(sent) \in Nat
  BY <1>1, SocketIs
<1> DEFINE n == conn.pos + 1
           x == sent[n]
<1>4. n \in 1..Len(sent) /\ n \in 0..Len(sent)
  BY <1>1, <1>3
<1>5. conn' = Socket("live", n, conn.todo, conn.since, conn.lagged)
  <2>1. conn' = [conn EXCEPT !.pos = n]
    BY <1>1
  <2> HIDE DEF n
  <2> QED
    BY <1>1, <1>3, <2>1 DEF Socket
<1>6. x \in Records /\ x \in Out
  BY <1>2, <1>4, BusNumbers, Elements DEF Out
<1> HIDE DEF n, x
<1>7. wire' = Append(wire, x)
  BY <1>1 DEF n, x
<1>8. /\ wire' \in Seq(Records) /\ Range(wire') = Range(wire) \cup {x}
      /\ \A k \in 1..Len(wire') : wire'[k] \in Out
  BY <1>3, <1>6, <1>7, WireGrows
<1>9. /\ BusTypeOK' /\ Stages' /\ Sources'
      /\ conn'.at = "live" /\ conn'.todo = conn.todo /\ conn'.since = conn.since
      /\ conn'.pos = n /\ conn'.lagged = conn.lagged
  <2>1. /\ "live" \in {"off", "lead", "snapshot", "replay", "live"}
        /\ "live" \notin {"off", "lead"}
    OBVIOUS
  <2>2. /\ DOMAIN conn.todo \subseteq 1..Capacity /\ conn.todo \in [DOMAIN conn.todo -> Records]
        /\ DOMAIN conn.todo = {} /\ \A k \in DOMAIN conn.todo : conn.todo[k] \in Out
    BY <1>3
  <2>3. conn.since \in 0..MaxRecords
    BY <1>3
  <2>4. wire' \in Seq(Records) /\ \A k \in 1..Len(wire') : wire'[k] \in Out
    BY <1>8
  <2>5. UNCHANGED <<busVars, tracker, cache, clientVars>>
    BY <1>1
  <2> QED
    BY <1>4, <1>5, <2>1, <2>2, <2>3, <2>4, <2>5, SocketTyped
<1>10. /\ Numbered' /\ SlotsAreNewest' /\ LedsInOrder'
       /\ UNCHANGED <<epoch, pub, ring, sent, cursor, seen, led, drops, crossed>>
  BY <1>1, SocketKeeps
<1>11. TodoInOrder'
  BY <1>3, <1>9 DEF TodoInOrder
<1>12. FirstMissesNothing'
  <2> SUFFICES ASSUME First, ~conn.lagged, NEW l \in 1..Len(ring)
               PROVE  \/ ring[l] \in seen
                      \/ ring[l] \in Range(wire')
                      \/ \E k \in (n + 1)..Len(sent) : sent[k] = ring[l]
                      \/ \E q \in Publishers : pub[q].at = "pushed" /\ pub[q].rec = ring[l]
    <3>1. First' = First
      BY <1>10 DEF First
    <3> QED
      BY <1>9, <1>10, <3>1 DEF FirstMissesNothing
  <2>1. \/ ring[l] \in seen
        \/ ring[l] \in Range(wire)
        \/ \E k \in (conn.pos + 1)..Len(sent) : sent[k] = ring[l]
        \/ \E q \in Publishers : pub[q].at = "pushed" /\ pub[q].rec = ring[l]
    BY <1>1, <1>2, <1>3 DEF FirstMissesNothing
  <2>2. CASE \E k \in n..Len(sent) : sent[k] = ring[l]
    <3>1. PICK k \in n..Len(sent) : sent[k] = ring[l]
      BY <2>2
    <3>2. k = n \/ k \in (n + 1)..Len(sent)
      BY <1>4
    <3>3. CASE k = n
      BY <1>8, <3>1, <3>3 DEF x
    <3> QED
      BY <3>1, <3>2, <3>3
  <2> QED
    BY <1>8, <2>1, <2>2 DEF n
<1>13. NewestIsOnItsWay'
  <2> SUFFICES ASSUME ~crossed, NEW l \in 1..n, sent[l].led, NEW m, m = sent[l].id
               PROVE  WillShow(m)'
    BY <1>9, <1>10 DEF NewestIsOnItsWay, WillShow, InTodo, TodoAfter, InWire, WireAfter, Shown
  <2>1. led' = led /\ epoch' = epoch
    BY <1>10
  <2>2. TodoAfter(m) /\ TodoAfter(m)' /\ ~InTodo(m)
    BY <1>3, <1>9 DEF TodoAfter, InTodo
  <2>3. l = n \/ l \in 1..conn.pos
    BY <1>3, <1>4 DEF n
  <2>4. l \in 1..Len(sent) /\ sent[l].id \in Nat /\ x.id \in Nat
    <3>1. l \in 1..Len(sent)
      BY <1>3, <1>4
    <3> QED
      BY <1>2, <1>6, <3>1, BusNumbers, Elements, Fields
  <2>5. x.led => x.id >= m
    <3> SUFFICES ASSUME x.led  PROVE x.id >= m
      OBVIOUS
    <3>1. CASE l = n
      BY <2>4, <3>1 DEF x
    <3>2. CASE l \in 1..conn.pos
      <4>1. l < n
        BY <1>3, <3>2 DEF n
      <4>2. sent[l].id < x.id
        BY <1>2, <1>4, <2>4, <4>1 DEF LedsInOrder, x
      <4> QED
        BY <2>4, <4>2
    <3> QED
      BY <2>3, <3>1, <3>2
  <2>6. CASE l = n
    <3>1. InWire(m)'
      BY <1>3, <1>6, <1>7, <2>1, <2>5, <2>6, LastIsNew DEF x
    <3> QED
      BY <2>2, <3>1 DEF WillShow
  <2>7. CASE l \in 1..conn.pos
    <3>1. WillShow(m)
      BY <1>1, <1>2, <2>7 DEF NewestIsOnItsWay
    <3>2. InWire(m) \/ (WireAfter(m, 1) /\ Shown(m))
      BY <2>2, <3>1 DEF WillShow
    <3>3. InWire(m)' \/ (WireAfter(m, 1)' /\ Shown(m)')
      BY <1>3, <1>6, <1>7, <2>1, <2>5, <3>2, LastIsNew
    <3> QED
      BY <2>2, <3>3 DEF WillShow
  <2> QED
    BY <2>3, <2>6, <2>7
<1> QED
  BY <1>9, <1>10, <1>11, <1>12, <1>13 DEF BusSound

\* The connection has missed some: the slot is sent again.
LEMMA SocketLagsSound ==
    ASSUME BusSound, SocketLags  PROVE BusSound'
<1>1. /\ conn.at = "live" /\ Len(sent) - conn.pos > Capacity
      /\ conn' = [conn EXCEPT !.pos = Resumes, !.lagged = TRUE]
      /\ wire' = IF latest = NoRecord THEN wire ELSE Append(wire, latest)
      /\ UNCHANGED <<busVars, tracker, cache, clientVars>>
  BY DEF SocketLags, Lags
<1>2. /\ conn = Socket(conn.at, conn.pos, conn.todo, conn.since, conn.lagged)
      /\ conn.since \in 0..MaxRecords /\ conn.pos \in 0..Len(sent)
      /\ DOMAIN conn.todo \subseteq 1..Capacity /\ conn.todo \in [DOMAIN conn.todo -> Records]
      /\ DOMAIN conn.todo = {} /\ Len(sent) \in Nat
  BY <1>1, SocketIs
<1>3. Resumes \in 0..Len(sent)
  <2>1. Capacity \in Nat
    BY Fields
  <2> QED
    BY <1>1, <1>2, <2>1 DEF Resumes
<1>4. conn' = Socket("live", Resumes, conn.todo, conn.since, TRUE)
  BY <1>1, <1>2 DEF Socket
<1>5. wire' \in Seq(Records) /\ \A k \in 1..Len(wire') : wire'[k] \in Out
  BY <1>1, SlotIsSent
<1>6. /\ BusTypeOK' /\ Stages' /\ Sources'
      /\ conn'.at = "live" /\ conn'.todo = conn.todo /\ conn'.pos = Resumes /\ conn'.lagged = TRUE
  <2>1. /\ "live" \in {"off", "lead", "snapshot", "replay", "live"}
        /\ "live" \notin {"off", "lead"}
    OBVIOUS
  <2>2. /\ DOMAIN conn.todo \subseteq 1..Capacity /\ conn.todo \in [DOMAIN conn.todo -> Records]
        /\ DOMAIN conn.todo = {} /\ \A k \in DOMAIN conn.todo : conn.todo[k] \in Out
    BY <1>2
  <2>3. conn.since \in 0..MaxRecords
    BY <1>2
  <2>4. UNCHANGED <<busVars, tracker, cache, clientVars>>
    BY <1>1
  <2> QED
    BY <1>3, <1>4, <1>5, <2>1, <2>2, <2>3, <2>4, SocketTyped
<1>7. Numbered' /\ SlotsAreNewest' /\ LedsInOrder'
  BY <1>1, SocketKeeps
<1>8. TodoInOrder'
  BY <1>2, <1>6 DEF TodoInOrder
<1>9. FirstMissesNothing'
  BY <1>6 DEF FirstMissesNothing
<1>10. NewestIsOnItsWay'
  BY <1>1, <1>2, <1>3, <1>6, SlotCovers
<1> QED
  BY <1>6, <1>7, <1>8, <1>9, <1>10 DEF BusSound

\* A step of the replay.
LEMMA ReplaysSound ==
    ASSUME BusSound, Replays  PROVE BusSound'
<1>1. /\ conn.at = "replay" /\ UNCHANGED <<busVars, tracker, cache, clientVars>>
      /\ \/ /\ DOMAIN conn.todo = {} /\ conn' = [conn EXCEPT !.at = "live"] /\ UNCHANGED wire
         \/ ReplaysNext
  BY DEF Replays
<1> QED
  BY <1>1, ReplayEndsSound, ReplaysNextSound

-----------------------------------------------------------------------------
(* The steps of the terminal, and of the booth's process *)

\* The terminal reads a record.
LEMMA ReceivesSound ==
    ASSUME BusSound, Receives  PROVE BusSound'
<1> DEFINE x == Head(wire)
<1>1. /\ wire # <<>> /\ wire' = Tail(wire)
      /\ cursor' = IF x.id > cursor THEN x.id ELSE cursor
      /\ seen' = seen \cup {x}
      /\ led' = IF x.led THEN x ELSE led
      /\ UNCHANGED <<busVars, tracker, cache, conn, drops, crossed>>
  BY DEF Receives
<1>2. UNCHANGED <<epoch, stamped, pub, ring, sent, latest>>
  BY <1>1 DEF busVars
<1>3. /\ BusTypeOK /\ Numbered /\ SlotsAreNewest /\ Sources /\ TodoInOrder /\ Stages
      /\ FirstMissesNothing /\ NewestIsOnItsWay
  BY DEF BusSound
<1>4. Numbered' /\ LedsInOrder' /\ Out' = Out
  BY <1>1, <1>2, BusKept
<1> DEFINE n == Len(wire)
<1>5. /\ wire' \in Seq(Records) /\ Len(wire') = n - 1 /\ n \in Nat \ {0}
      /\ x = wire[1] /\ x \in Records
      /\ \A i \in 1..Len(wire') : wire'[i] = wire[i + 1]
  BY <1>1, <1>3, FromTheFront, BusNumbers
<1> HIDE DEF x, n
<1>6. x \in Out /\ x.id \in 0..MaxRecords /\ x.epoch = epoch /\ x.id \in Nat
  <2>1. 1 \in 1..Len(wire)
    BY <1>5 DEF n
  <2>2. x \in Out
    BY <1>3, <1>5, <2>1 DEF Sources
  <2> QED
    BY <1>3, <1>5, <2>2, OutRecords, Fields
<1>7. \A i \in 1..Len(wire') : i + 1 \in 1..Len(wire) /\ wire'[i] = wire[i + 1]
  BY <1>5 DEF n
<1>8. ASSUME NEW y \in Range(wire)  PROVE y = x \/ y \in Range(wire')
  <2>1. PICK i \in 1..n : y = wire[i]
    BY <1>3, BusNumbers, Elements DEF n
  <2>2. CASE i = 1
    BY <1>5, <2>1, <2>2
  <2>3. CASE i # 1
    <3>1. i - 1 \in 1..Len(wire') /\ (i - 1) + 1 = i
      BY <1>5, <2>3
    <3>2. wire'[i - 1] = y
      BY <1>5, <2>1, <3>1
    <3> QED
      BY <1>5, <3>1, <3>2, Elements
  <2> QED
    BY <2>2, <2>3
<1>9. conn.at \notin {"off", "lead"}
  BY <1>1, <1>3 DEF Stages
<1>10. BusTypeOK'
  <2>1. cursor' \in 0..MaxRecords
    BY <1>1, <1>3, <1>6 DEF BusTypeOK
  <2>2. led' \in Records /\ seen' \subseteq Records
    BY <1>1, <1>3, <1>5 DEF BusTypeOK
  <2> QED
    BY <1>1, <1>2, <1>3, <1>5, <2>1, <2>2 DEF BusTypeOK
<1>11. SlotsAreNewest'
  BY <1>1, <1>2, <1>3, <1>4 DEF SlotsAreNewest
<1>12. Sources'
  <2>1. \A i \in 1..Len(wire') : wire'[i] \in Out
    BY <1>3, <1>7 DEF Sources
  <2>2. led'.epoch <= epoch /\ (led'.led /\ led'.epoch = epoch => led' \in Out)
    <3>1. epoch \in Nat
      BY <1>3, BusNumbers
    <3> QED
      BY <1>1, <1>3, <1>6, <3>1 DEF Sources
  <2>3. \A i \in 1..Len(ring) :
           ring[i] \in Range(sent) \/ \E p \in Publishers : pub[p].at = "pushed" /\ pub[p].rec = ring[i]
    BY <1>3 DEF Sources
  <2>4. \A i \in DOMAIN conn.todo : conn.todo[i] \in Out
    BY <1>3 DEF Sources
  <2>5. conn' = conn
    BY <1>1
  <2> QED
    BY <1>2, <1>4, <2>1, <2>2, <2>3, <2>4, <2>5 DEF Sources
<1>13. TodoInOrder'
  BY <1>1, <1>3 DEF TodoInOrder
<1>14. Stages'
  BY <1>1, <1>2, <1>3, <1>9 DEF Stages
<1>15. FirstMissesNothing'
  <2> SUFFICES ASSUME First, conn.at \in {"replay", "live"}, ~conn.lagged, NEW i \in 1..Len(ring)
               PROVE  \/ ring[i] \in seen'
                      \/ ring[i] \in Range(wire')
                      \/ \E k \in DOMAIN conn.todo : conn.todo[k] = ring[i]
                      \/ \E k \in (conn.pos + 1)..Len(sent) : sent[k] = ring[i]
                      \/ \E q \in Publishers : pub[q].at = "pushed" /\ pub[q].rec = ring[i]
    <3>1. First' = First
      BY <1>1, <1>2 DEF First
    <3>2. First => (conn.at \in {"off", "lead", "snapshot"} => conn.since = 0)
      BY <1>3 DEF FirstMissesNothing
    <3>3. conn' = conn /\ ring' = ring /\ sent' = sent /\ pub' = pub
      BY <1>1, <1>2
    <3> QED
      BY <1>9, <3>1, <3>2, <3>3 DEF FirstMissesNothing
  <2>1. \/ ring[i] \in seen
        \/ ring[i] \in Range(wire)
        \/ \E k \in DOMAIN conn.todo : conn.todo[k] = ring[i]
        \/ \E k \in (conn.pos + 1)..Len(sent) : sent[k] = ring[i]
        \/ \E q \in Publishers : pub[q].at = "pushed" /\ pub[q].rec = ring[i]
    BY <1>3 DEF FirstMissesNothing
  <2>2. seen \subseteq seen' /\ x \in seen'
    BY <1>1
  <2> QED
    BY <1>8, <2>1, <2>2
<1>16. NewestIsOnItsWay'
  <2>1. conn' = conn /\ sent' = sent /\ crossed' = crossed /\ epoch' = epoch
    BY <1>1, <1>2
  <2> SUFFICES ASSUME ~crossed, conn.at \in {"snapshot", "replay", "live"},
                      NEW i \in 1..conn.pos, sent[i].led, NEW m, m = sent[i].id
               PROVE  WillShow(m)'
    BY <2>1 DEF NewestIsOnItsWay, WillShow, InTodo, TodoAfter, InWire, WireAfter, Shown
  <2>2. WillShow(m)
    BY <1>3 DEF NewestIsOnItsWay
  <2>3. (InTodo(m) => InTodo(m)') /\ (TodoAfter(m) => TodoAfter(m)')
    BY <2>1 DEF InTodo, TodoAfter
  <2>4. ASSUME NEW k \in 1..n, WireAfter(m, k), NEW j \in 1..Len(wire'), j + 1 >= k, wire'[j].led
        PROVE  wire'[j].id >= m
    <3>1. j + 1 \in k..Len(wire) /\ wire'[j] = wire[j + 1]
      BY <1>7, <2>4
    <3> QED
      BY <2>4, <3>1 DEF WireAfter
  <2>5. ASSUME InWire(m)  PROVE InWire(m)' \/ (WireAfter(m, 1)' /\ Shown(m)')
    <3>1. PICK k \in 1..n : wire[k].led /\ WireAfter(m, k)
      BY <2>5 DEF InWire, n
    <3>2. CASE k = 1
      <4>1. \A j \in 1..Len(wire') : wire'[j].led => wire'[j].id >= m
        BY <1>5, <2>4, <3>1, <3>2
      <4>2. WireAfter(m, 1)'
        BY <4>1 DEF WireAfter
      <4>3. x.led /\ x.id >= m
        <5>1. 1 \in 1..Len(wire)
          BY <1>5 DEF n
        <5> QED
          BY <1>5, <3>1, <3>2, <5>1 DEF WireAfter
      <4>4. Shown(m)'
        BY <1>1, <1>6, <2>1, <4>3 DEF Shown
      <4> QED
        BY <4>2, <4>4
    <3>3. CASE k # 1
      <4>1. PICK l \in Nat : l = k - 1
        BY <3>3
      <4>2. l \in 1..Len(wire') /\ l + 1 = k /\ wire'[l] = wire[k]
        BY <1>5, <3>3, <4>1
      <4>3. \A j \in l..Len(wire') : j \in 1..Len(wire') /\ j + 1 >= k
        BY <4>2
      <4>4. WireAfter(m, l)'
        BY <2>4, <3>1, <4>3 DEF WireAfter
      <4>5. InWire(m)'
        BY <3>1, <4>2, <4>4 DEF InWire
      <4> QED
        BY <4>5
    <3> QED
      BY <3>2, <3>3
  <2>6. ASSUME WireAfter(m, 1), Shown(m)  PROVE WireAfter(m, 1)' /\ Shown(m)'
    <3>1. \A j \in 1..Len(wire') : wire'[j].led => wire'[j].id >= m
      BY <1>5, <2>4, <2>6
    <3>2. WireAfter(m, 1)'
      BY <3>1 DEF WireAfter
    <3>3. x.led => x.id >= m
      <4>1. 1 \in 1..Len(wire)
        BY <1>5 DEF n
      <4> QED
        BY <1>5, <2>6, <4>1 DEF WireAfter
    <3>4. Shown(m)'
      BY <1>1, <1>6, <2>1, <2>6, <3>3 DEF Shown
    <3> QED
      BY <3>2, <3>4
  <2> QED
    BY <2>2, <2>3, <2>5, <2>6 DEF WillShow
<1> QED
  BY <1>4, <1>10, <1>11, <1>12, <1>13, <1>14, <1>15, <1>16 DEF BusSound

\* The connection is gone.
LEMMA OffIs ==
    /\ Off = Socket("off", 0, <<>>, 0, FALSE) /\ Off.at = "off" /\ Off.pos = 0 /\ Off.since = 0
    /\ Off.todo = <<>> /\ DOMAIN <<>> = {} /\ <<>> \in [DOMAIN <<>> -> Records]
    /\ <<>> \in Seq(Records) /\ Len(<<>>) = 0
<1>1. DOMAIN <<>> = {} /\ <<>> \in [{} -> Records] /\ <<>> \in Seq(Records) /\ Len(<<>>) = 0
  OBVIOUS
<1> QED
  BY <1>1 DEF Off, Socket

\* The connection drops.
LEMMA DropsSound ==
    ASSUME BusSound, Drops  PROVE BusSound'
<1>1. /\ drops + epoch < MaxBreaks /\ drops' = drops + 1 /\ conn' = Off /\ wire' = <<>>
      /\ UNCHANGED <<busVars, tracker, cache, cursor, seen, led, crossed>>
  BY DEF Drops
<1>2. UNCHANGED <<epoch, stamped, pub, ring, sent, latest>>
  BY <1>1 DEF busVars
<1>3. BusTypeOK /\ SlotsAreNewest /\ Sources
  BY DEF BusSound
<1>4. Numbered' /\ LedsInOrder' /\ Out' = Out
  BY <1>1, <1>2, BusKept
<1>5. /\ conn'.at = "off" /\ conn'.pos = 0 /\ conn'.todo = <<>> /\ conn'.since = 0
      /\ DOMAIN conn'.todo = {} /\ conn'.todo \in [DOMAIN conn'.todo -> Records]
      /\ wire' \in Seq(Records) /\ Len(wire') = 0
  BY <1>1, OffIs
<1>6. /\ epoch \in Nat /\ drops \in Nat /\ MaxBreaks \in Nat /\ Len(sent) \in Nat
      /\ MaxRecords \in Nat /\ Capacity \in Nat
  BY <1>3, BusNumbers, Fields
<1>7. BusTypeOK'
  <2>1. drops' \in 0..MaxBreaks /\ conn'.pos \in 0..Len(sent)
    BY <1>1, <1>5, <1>6
  <2>2. DOMAIN conn'.todo \subseteq 1..Capacity
    BY <1>5
  <2> QED
    BY <1>1, <1>2, <1>3, <1>5, <2>1, <2>2 DEF BusTypeOK
<1>8. SlotsAreNewest'
  BY <1>1, <1>2, <1>3, <1>4 DEF SlotsAreNewest
<1>9. Sources'
  <2>1. \A i \in 1..Len(wire') : wire'[i] \in Out
    BY <1>5
  <2> QED
    BY <1>1, <1>2, <1>3, <1>4, <1>5, <2>1 DEF Sources
<1>10. TodoInOrder'
  BY <1>5 DEF TodoInOrder
<1>11. Stages'
  <2>1. drops' + epoch' <= MaxBreaks
    BY <1>1, <1>2, <1>6
  <2>2. conn' = [at |-> conn'.at, pos |-> conn'.pos, todo |-> conn'.todo, since |-> conn'.since,
                 lagged |-> conn'.lagged]
    BY <1>1 DEF Off
  <2>3. 0 \in 0..MaxRecords
    BY <1>6
  <2> QED
    BY <1>1, <1>5, <2>1, <2>2, <2>3 DEF Stages
<1>12. FirstMissesNothing'
  BY <1>1, <1>6 DEF FirstMissesNothing, First
<1>13. NewestIsOnItsWay'
  BY <1>5 DEF NewestIsOnItsWay
<1> QED
  BY <1>4, <1>7, <1>8, <1>9, <1>10, <1>11, <1>12, <1>13 DEF BusSound

\* A bus that is new: nobody publishes, nothing was sent, and the terminal shows nothing of it.
NewBus ==
    /\ stamped = 0 /\ pub = [p \in Publishers |-> Idle] /\ ring = <<>> /\ sent = <<>>
    /\ latest = NoRecord /\ tracker = 0 /\ cache = NoRecord /\ conn = Off /\ wire = <<>>
    /\ epoch \in 0..MaxBreaks /\ drops \in 0..MaxBreaks /\ drops + epoch <= MaxBreaks
    /\ cursor \in 0..MaxRecords /\ (First => cursor = 0)
    /\ led \in Records /\ led.epoch <= epoch /\ ~(led.led /\ led.epoch = epoch)
    /\ seen \subseteq Records /\ crossed \in BOOLEAN

\* A new bus is in order, whatever the terminal knows of another.
LEMMA NewBusSound == NewBus => BusSound
<1> SUFFICES ASSUME NewBus  PROVE BusSound
  OBVIOUS
<1>1. /\ conn.at = "off" /\ conn.pos = 0 /\ conn.todo = <<>> /\ conn.since = 0
      /\ DOMAIN conn.todo = {} /\ conn.todo \in [DOMAIN conn.todo -> Records]
      /\ <<>> \in Seq(Records) /\ Len(<<>>) = 0
  BY OffIs DEF NewBus
<1>2. MaxBreaks \in Nat /\ MaxRecords \in Nat /\ Capacity \in Nat /\ NoRecord \in Records
      /\ NoRecord.id = 0
  BY Fields
<1>3. /\ pub \in [Publishers -> Calls] /\ \A p \in Publishers : pub[p] = Idle /\ pub[p].at = "idle"
  <2>1. Idle \in Calls /\ Idle.at = "idle"
    BY <1>2 DEF Idle, Calls
  <2> QED
    BY <2>1 DEF NewBus
<1>4. Busy = {} /\ Passed = {} /\ Range(sent) = {} /\ Out = {} /\ Indications = {}
  <2>1. Busy = {} /\ Passed = {}
    BY <1>3 DEF Busy, Passed
  <2>2. Range(sent) = {}
    <3>1. sent \in Seq(Records) /\ Len(sent) = 0
      BY <1>1 DEF NewBus
    <3>2. Range(sent) = {sent[i] : i \in 1..Len(sent)}
      BY <3>1, Elements
    <3>3. 1..0 = {}
      OBVIOUS
    <3> QED
      BY <3>1, <3>2, <3>3
  <2> QED
    BY <2>1, <2>2 DEF Out, Indications
<1>5. BusTypeOK
  <2>1. DOMAIN conn.todo \subseteq 1..Capacity
    BY <1>1
  <2>2. 0 \in 0..MaxRecords /\ 0 \in 0..0 /\ 0 <= Capacity /\ 0 <= 0
    BY <1>2
  <2> QED
    BY <1>1, <1>2, <1>3, <2>1, <2>2 DEF BusTypeOK, Calls, NewBus
<1>6. Numbered
  BY <1>1, <1>3, <1>4 DEF Numbered, NewBus
<1>7. SlotsAreNewest
  BY <1>1, <1>4 DEF SlotsAreNewest, NewBus
<1>8. Sources
  BY <1>1, <1>4 DEF Sources, NewBus
<1>9. LedsInOrder /\ TodoInOrder
  BY <1>1, <1>4 DEF LedsInOrder, TodoInOrder, NewBus
<1>10. Stages
  <2>1. conn = [at |-> conn.at, pos |-> conn.pos, todo |-> conn.todo, since |-> conn.since,
                lagged |-> conn.lagged]
    BY DEF NewBus, Off
  <2>2. 0 \in 0..MaxRecords
    BY <1>2
  <2> QED
    BY <1>1, <2>1, <2>2 DEF Stages, NewBus
<1>11. FirstMissesNothing
  BY <1>1, <1>4 DEF FirstMissesNothing, NewBus
<1>12. NewestIsOnItsWay
  BY <1>1, <1>4 DEF NewestIsOnItsWay, NewBus
<1> QED
  BY <1>12, <1>5, <1>6, <1>7, <1>8, <1>9, <1>10, <1>11 DEF BusSound

\* The booth restarts.
LEMMA RestartsSound ==
    ASSUME BusSound, Restarts  PROVE BusSound'
<1>1. /\ drops + epoch < MaxBreaks /\ epoch' = epoch + 1
      /\ stamped' = 0 /\ pub' = [p \in Publishers |-> Idle] /\ ring' = <<>> /\ sent' = <<>>
      /\ latest' = NoRecord /\ tracker' = 0 /\ cache' = NoRecord /\ conn' = Off /\ wire' = <<>>
      /\ UNCHANGED <<cursor, seen, led, drops, crossed>>
  BY DEF Restarts, clientVars
<1>2. /\ epoch \in Nat /\ drops \in Nat /\ MaxBreaks \in Nat /\ led \in Records /\ led.epoch \in Nat
      /\ led.epoch <= epoch /\ cursor \in 0..MaxRecords /\ seen \subseteq Records /\ crossed \in BOOLEAN
      /\ drops \in 0..MaxBreaks
  BY BusNumbers, Fields DEF BusSound, BusTypeOK, Sources
<1>3. /\ epoch' \in 0..MaxBreaks /\ drops + epoch' <= MaxBreaks
      /\ led.epoch <= epoch' /\ led.epoch # epoch'
  BY <1>1, <1>2
<1>4. ~First'
  BY <1>1, <1>2 DEF First
<1>5. NewBus'
  BY <1>1, <1>2, <1>3, <1>4 DEF NewBus
<1>6. NewBus' => BusSound'
  BY NewBusSound, PTL
<1> QED
  BY <1>5, <1>6

\* The bus starts in order.
LEMMA InitBus == BusInit => BusSound
<1>1. BusInit => NewBus
  <2>1. /\ MaxBreaks \in Nat /\ MaxRecords \in Nat /\ NoRecord \in Records
        /\ NoRecord.led = FALSE /\ NoRecord.epoch = 0
    BY Fields
  <2>2. 0 \in 0..MaxBreaks /\ 0 \in 0..MaxRecords /\ 0 + 0 <= MaxBreaks
    BY <2>1
  <2>3. ASSUME BusInit  PROVE NewBus
    <3>1. /\ epoch = 0 /\ drops = 0 /\ cursor = 0 /\ led = NoRecord /\ seen = {} /\ crossed = FALSE
      BY <2>3 DEF BusInit
    <3>2. epoch \in 0..MaxBreaks /\ drops \in 0..MaxBreaks /\ drops + epoch <= MaxBreaks
      BY <2>2, <3>1
    <3>3. led \in Records /\ led.epoch <= epoch /\ led.led = FALSE
      BY <2>1, <3>1
    <3>4. cursor \in 0..MaxRecords /\ (First => cursor = 0)
      BY <2>2, <3>1
    <3>5. seen \subseteq Records /\ crossed \in BOOLEAN
      BY <3>1
    <3> QED
      BY <2>3, <3>2, <3>3, <3>4, <3>5 DEF BusInit, NewBus
  <2> QED
    BY <2>3
<1> QED
  BY <1>1, NewBusSound

\* Every step of the publishers, the tracker, the connection and the terminal.
LEMMA BusStep == BusSound /\ [BusNext]_telemetryVars => BusSound'
<1> SUFFICES ASSUME BusSound, [BusNext]_telemetryVars  PROVE BusSound'
  OBVIOUS
<1>1. CASE UNCHANGED telemetryVars
  <2>1. /\ UNCHANGED <<busVars, conn, wire, clientVars>>
        /\ cache' = cache /\ tracker' = tracker
    BY <1>1 DEF telemetryVars, busVars, clientVars
  <2>2. cache \in Records /\ tracker \in 0..Len(sent)
        /\ \A i \in 1..tracker : sent[i].led => sent[i].id <= cache.id
    BY DEF BusSound, BusTypeOK, SlotsAreNewest
  <2> QED
    BY <2>1, <2>2, TrackerSound
<1>2. CASE \E p \in Publishers : Stamp(p) \/ Retain(p) \/ Push(p) \/ Broadcast(p)
  BY <1>2, StampSound, RetainSound, PushSound, BroadcastSound
<1>3. CASE TrackerReceives \/ TrackerLags
  BY <1>3, TrackerReceivesSound, TrackerLagsSound
<1>4. CASE Connect \/ Leads \/ Snapshot \/ Replays \/ SendsLive \/ SocketLags
  BY <1>4, ConnectSound, LeadsSound, SnapshotSound, ReplaysSound, SendsLiveSound, SocketLagsSound
<1>5. CASE Receives \/ Drops \/ Restarts
  BY <1>5, ReceivesSound, DropsSound, RestartsSound
<1> QED
  BY <1>1, <1>2, <1>3, <1>4, <1>5 DEF BusNext

\* What is sound is what followers rely on.
LEMMA BusSoundIsTrue == BusSound => BusInv
<1> SUFFICES ASSUME BusSound  PROVE BusInv
  OBVIOUS
<1>1. /\ BusTypeOK /\ Numbered /\ SlotsAreNewest /\ Sources /\ LedsInOrder /\ Stages
      /\ FirstMissesNothing /\ NewestIsOnItsWay
  BY DEF BusSound
<1>2. sent \in Seq(Records) /\ ring \in Seq(Records) /\ Len(sent) \in Nat /\ epoch \in Nat
  BY <1>1, BusNumbers
<1>3. \A rec \in Indications : rec \in Out /\ rec.led /\ rec \in Records
                               /\ \E i \in 1..Len(sent) : rec = sent[i]
  BY <1>2, Elements DEF Indications, Out
<1>4. LatestIsNewest
  BY <1>1, <1>3 DEF LatestIsNewest, SlotsAreNewest
<1>5. CacheIsNewest
  BY <1>1, <1>3 DEF CacheIsNewest, SlotsAreNewest
<1>6. CaughtUp => wire = <<>> /\ Len(wire) = 0 /\ Range(wire) = {} /\ DOMAIN conn.todo = {}
  <2> SUFFICES ASSUME CaughtUp  PROVE wire = <<>> /\ Len(wire) = 0 /\ Range(wire) = {} /\ DOMAIN conn.todo = {}
    OBVIOUS
  <2>1. wire = <<>> /\ wire \in Seq(Records) /\ Len(wire) = 0
    BY <1>1 DEF CaughtUp, BusTypeOK
  <2>2. Range(wire) = {}
    <3>0. wire \in Seq(Records)
      BY <1>1 DEF BusTypeOK
    <3>1. Range(wire) = {wire[i] : i \in 1..Len(wire)}
      BY <3>0, Elements
    <3>2. 1..0 = {}
      OBVIOUS
    <3> QED
      BY <2>1, <3>1, <3>2
  <2> QED
    BY <1>1, <2>1, <2>2 DEF CaughtUp, Stages
<1>7. CaughtUp => \A p \in Publishers : pub[p].at = "idle"
  BY DEF CaughtUp, Idle
<1>8. RetainedIsSeen
  <2> SUFFICES ASSUME CaughtUp, ~conn.lagged, First, NEW i \in 1..Len(ring)  PROVE ring[i] \in seen
    BY <1>2, Elements DEF RetainedIsSeen, First
  <2>1. conn.at = "live" /\ conn.pos = Len(sent)
    BY DEF CaughtUp
  <2>2. ~\E k \in (conn.pos + 1)..Len(sent) : sent[k] = ring[i]
    BY <1>2, <2>1
  <2>3. ~\E q \in Publishers : pub[q].at = "pushed" /\ pub[q].rec = ring[i]
    BY <1>7
  <2> QED
    BY <1>1, <1>6, <2>1, <2>2, <2>3 DEF FirstMissesNothing
<1>9. LedIsShown
  <2> SUFFICES ASSUME CaughtUp, Indications # {}, ~crossed  PROVE Newest(led)
    BY DEF LedIsShown
  <2>1. conn.at = "live" /\ conn.pos = Len(sent)
    BY DEF CaughtUp
  <2>2. ASSUME NEW i \in 1..Len(sent), sent[i].led  PROVE Shown(sent[i].id)
    <3>1. WillShow(sent[i].id)
      BY <1>1, <2>1, <2>2 DEF NewestIsOnItsWay
    <3>2. ~InTodo(sent[i].id) /\ ~InWire(sent[i].id)
      BY <1>6 DEF InTodo, InWire
    <3> QED
      BY <3>1, <3>2 DEF WillShow
  <2>3. \A rec \in Indications : Shown(rec.id)
    BY <1>3, <2>2
  <2>4. led.led /\ led.epoch = epoch /\ \A rec \in Indications : led.id >= rec.id
    BY <2>3 DEF Shown
  <2>5. led \in Out
    BY <1>1, <2>4 DEF Sources
  <2>6. Passed = {}
    BY <1>7 DEF Passed
  <2>7. led \in Indications
    BY <2>4, <2>5, <2>6 DEF Out, Indications
  <2>8. led.id \in Nat /\ \A rec \in Indications : rec.id \in Nat
    BY <1>3, <2>7, Fields
  <2> QED
    BY <2>4, <2>7, <2>8 DEF Newest
<1> QED
  BY <1>1, <1>4, <1>5, <1>8, <1>9 DEF BusInv

\* Whoever publishes at once, and however often a follower lags or reconnects: the slot of the
\* status LED (TelemetryBus::publish) and the debug server's cache (track_status_led) never end
\* behind what was published, a terminal that has caught up (telemetry_socket) shows the LED as
\* it is, and on its first connection nothing falls between the replay and the live channel.
THEOREM FollowersCatchUp == BusSpec => []BusInv
BY InitBus, BusStep, BusSoundIsTrue, PTL DEF BusSpec

-----------------------------------------------------------------------------
(* The debug server: what an injected event becomes.                       *)

\* A command in the queue, and a client's request.
InQueue ==
    [kind : {"Snapshot", "InjectEvent"}, by : Clients, request : Nat, dial : Nat,
     event : {"none", "Tick", "RotaryPulse"}]
Asked == [phase : Phases, request : 0..MaxRequests, left : Nat, dial : Nat]

QueueTyped ==
    /\ commands \in Seq(InQueue) /\ Len(commands) <= CommandChannel
    /\ \A i \in 1..Len(commands) :
          commands[i].kind = "InjectEvent" => commands[i].event \in {"Tick", "RotaryPulse"}

\* A client has events left to send just while it sends them, unless the loop has ended.
RequestsTyped ==
    /\ client \in [Clients -> Asked]
    /\ owed \in [Clients -> Nat] /\ handled \in [Clients -> Nat]
    /\ \A c \in Clients :
          /\ client[c].left <= client[c].dial + 1
          /\ client[c].phase = "pulsing" => client[c].left > 0
          /\ loop # "ended" /\ client[c].phase # "pulsing" => client[c].left = 0

\* The events of a client in a queue, and the balance of what its dials asked for.
EventsIn(q, c) == {i \in 1..Len(q) : q[i].kind = "InjectEvent" /\ q[i].by = c}
KeptInQueue ==
    loop # "ended" =>
        \A c \in Clients :
            handled[c] + Cardinality(EventsIn(commands, c)) + client[c].left = owed[c]

\* What the group holds, the core has counted, one pulse for each.
Origins == (Clients \cup {"booth"}) \X Nat
GroupIsCounted ==
    /\ group \in Seq(Origins)
    /\ Len(group) <= IF core.tag = "Dialing" THEN core.pulses ELSE 0

RingTyped ==
    telemetryRing \in Seq(Tags \cup {"Other"}) /\ Len(telemetryRing) <= RingCapacity

DebugSound ==
    /\ WellFormed(core) /\ accepting \in BOOLEAN
    /\ loop \in {"free", "sending", "left", "ended"} /\ moves \in 0..MaxMoves
    /\ QueueTyped /\ RequestsTyped /\ KeptInQueue /\ GroupIsCounted /\ RingTyped

\* The core counts a pulse that leaves it dialing.
LEMMA PulseCounts ==
    ASSUME NEW s, WellFormed(s), NEW e \in Event, e.ev = "RotaryPulse",
           NEW a \in BOOLEAN, NEW new, new = handle_with_call_availability(s, e, a).state,
           new.tag = "Dialing"
    PROVE  new.pulses = IF s.tag = "Dialing" THEN s.pulses + 1 ELSE 1
<1>1. new = handle_available(s, e, a).state
  BY DEF handle_with_call_availability, LedFirst, To
<1>2. ~Stale(s, e) /\ e.ev \notin {"PowerButtonPressed", "PowerButtonHeld", "UploadFinished"}
  BY DEF Stale
<1>3. CASE ~a
  <2>1. new = Paused(s, e).state
    BY <1>1, <1>2, <1>3 DEF handle_available
  <2>2. ~Protected(new) => new.tag = "CallsPaused"
    <3>1. \A b : CallsPaused(b).tag = "CallsPaused"
      BY DEF CallsPaused, Variant
    <3>2. \A x : WithoutBeep(x).tag = x.tag
      BY DEF WithoutBeep
    <3>3. Protected(s) => LET inner == handle_inner(WithoutBeep(s), e)
                          IN  new = IF Protected(inner.state) THEN WithoutBeep(inner.state)
                                    ELSE CallsPaused(HookAfter(s, e))
      BY <2>1 DEF Paused, Quietly, To
    <3>4. ~Protected(s) => new = CallsPaused(HookAfter(s, e))
      BY <2>1 DEF Paused, To
    <3> QED
      BY <3>1, <3>2, <3>3, <3>4 DEF Protected
  <2> QED
    BY <2>2 DEF Protected
<1>4. CASE a /\ s.tag = "CallsPaused"
  <2>1. new = Resume(s, e).state
    BY <1>1, <1>2, <1>4 DEF handle_available
  <2>2. Plain("Idle").tag = "Idle" /\ Plain("DialTone").tag = "DialTone" /\ Dialing(1).pulses = 1
    BY DEF Plain, Dialing, Variant
  <2>3. ToIdle.state.tag = "Idle" /\ ToDialTone.state.tag = "DialTone"
    BY <2>2 DEF ToIdle, ToDialTone, To
  <2>4. handle_inner(Plain("DialTone"), e).state = Dialing(1)
    BY <2>2 DEF handle_inner, WhileDialing, To
  <2>5. new = Dialing(1)
    BY <2>1, <2>3, <2>4 DEF Resume, Then, To
  <2> QED
    BY <1>4, <2>2, <2>5
<1>5. CASE a /\ s.tag # "CallsPaused"
  <2>1. new = handle_inner(s, e).state
    BY <1>1, <1>2, <1>5 DEF handle_available
  <2>2. s.tag \in Tags
    BY FieldTypes
  <2>3. CASE s.tag \in {"DialTone", "Dialing"}
    <3>1. new = WhileDialing(s, e).state
      BY <2>1, <2>3 DEF handle_inner
    <3>2. Dialing(1).pulses = 1 /\ Dialing(s.pulses + 1).pulses = s.pulses + 1
          /\ Plain("DialTone").tag = "DialTone"
      BY DEF Plain, Dialing, Variant
    <3>3. new = IF s.tag = "DialTone" THEN Dialing(1) ELSE CountPulse(s).state
      BY <2>3, <3>1 DEF WhileDialing, To
    <3>4. CountPulse(s).state \in {Plain("DialTone"), Dialing(s.pulses + 1)}
      BY DEF CountPulse, To
    <3> QED
      BY <2>3, <3>2, <3>3, <3>4
  <2>4. CASE s.tag \notin {"DialTone", "Dialing"}
    <3>1. new = s
      BY <1>5, <2>1, <2>2, <2>4 DEF handle_inner, WhilePlaying, WhileRecording, WhileFinishing,
         WhileUploading, WhileUploadingTimedOut, To, Tags
    <3> QED
      BY <2>4, <3>1
  <2> QED
    BY <2>3, <2>4
<1> QED
  BY <1>3, <1>4, <1>5

\* One more command at the end of the queue: one more event of the client that sends one.
LEMMA EventQueued ==
    ASSUME NEW q \in Seq(InQueue), NEW m \in InQueue, NEW c \in Clients
    PROVE  /\ IsFiniteSet(EventsIn(q, c)) /\ Cardinality(EventsIn(q, c)) \in Nat
           /\ Cardinality(EventsIn(Append(q, m), c)) =
                Cardinality(EventsIn(q, c))
                  + IF m.kind = "InjectEvent" /\ m.by = c THEN 1 ELSE 0
<1> DEFINE E == EventsIn(q, c)
           n == Len(q) + 1
<1>1. /\ Len(Append(q, m)) = n /\ Len(q) \in Nat /\ n \in Nat
      /\ \A i \in 1..Len(q) : Append(q, m)[i] = q[i]
      /\ Append(q, m)[n] = m
  BY AtTheEnd
<1>2. E \subseteq 1..Len(q)
  BY DEF EventsIn
<1>3. IsFiniteSet(E) /\ Cardinality(E) \in Nat
  <2>1. IsFiniteSet(1..Len(q))
    BY <1>1, FS_Interval
  <2> QED
    BY <1>2, <2>1, FS_Subset, FS_CardinalityType
<1>4. EventsIn(Append(q, m), c) = E \cup (IF m.kind = "InjectEvent" /\ m.by = c THEN {n} ELSE {})
  <2>1. 1..n = 1..Len(q) \cup {n}
    BY <1>1
  <2> HIDE DEF n
  <2> QED
    BY <1>1, <2>1 DEF EventsIn
<1>5. n \notin E
  BY <1>1, <1>2
<1> HIDE DEF E, n
<1>6. CASE m.kind = "InjectEvent" /\ m.by = c
  <2>1. Cardinality(E \cup {n}) = Cardinality(E) + 1
    BY <1>3, <1>5, FS_AddElement
  <2> QED
    BY <1>3, <1>4, <1>6, <2>1 DEF E
<1>7. CASE ~(m.kind = "InjectEvent" /\ m.by = c)
  <2>1. EventsIn(Append(q, m), c) = E
    BY <1>4, <1>7
  <2>2. Cardinality(E) = Cardinality(E) + 0
    BY <1>3
  <2> QED
    BY <1>3, <1>7, <2>1, <2>2 DEF E
<1> QED
  BY <1>6, <1>7

\* The first command is taken: one event less of the client that has sent it.
LEMMA EventTaken ==
    ASSUME NEW q \in Seq(InQueue), q # <<>>, NEW c \in Clients
    PROVE  Cardinality(EventsIn(q, c)) =
             Cardinality(EventsIn(Tail(q), c))
               + IF Head(q).kind = "InjectEvent" /\ Head(q).by = c THEN 1 ELSE 0
<1> DEFINE T == EventsIn(Tail(q), c)
           E == EventsIn(q, c)
           shift == [i \in T |-> i + 1]
<1>1. /\ Tail(q) \in Seq(InQueue) /\ Len(Tail(q)) = Len(q) - 1 /\ Len(q) \in Nat \ {0}
      /\ Head(q) = q[1] /\ Head(q) \in InQueue
      /\ \A i \in 1..Len(Tail(q)) : Tail(q)[i] = q[i + 1]
  BY FromTheFront
<1>2. IsFiniteSet(T) /\ IsFiniteSet(E) /\ Cardinality(T) \in Nat /\ Cardinality(E) \in Nat
  BY <1>1, EventQueued
<1>3. T \subseteq Nat /\ \A i \in T : i + 1 \in E \ {1}
  BY <1>1 DEF EventsIn
<1>4. \A j \in E \ {1} : j - 1 \in T /\ (j - 1) + 1 = j
  <2> SUFFICES ASSUME NEW j \in E \ {1}  PROVE j - 1 \in T /\ (j - 1) + 1 = j
    OBVIOUS
  <2>1. j \in 1..Len(q) /\ j # 1 /\ q[j].kind = "InjectEvent" /\ q[j].by = c
    BY DEF EventsIn
  <2>2. j - 1 \in 1..Len(Tail(q)) /\ (j - 1) + 1 = j
    BY <1>1, <2>1
  <2>3. Tail(q)[j - 1] = q[j]
    BY <1>1, <2>2
  <2> QED
    BY <2>1, <2>2, <2>3 DEF EventsIn
<1> HIDE DEF T, E
<1>5. shift \in Bijection(T, E \ {1})
  <2>1. shift \in [T -> E \ {1}]
    BY <1>3
  <2>2. \A a, b \in T : shift[a] = shift[b] => a = b
    BY <1>3
  <2>3. \A j \in E \ {1} : \E i \in T : shift[i] = j
    BY <1>4
  <2> QED
    BY <2>1, <2>2, <2>3 DEF Bijection, Injection, Surjection, IsInjective
<1>6. Cardinality(E \ {1}) = Cardinality(T)
  BY <1>2, <1>5, FS_Bijection DEF ExistsBijection
<1>7. 1 \in E <=> Head(q).kind = "InjectEvent" /\ Head(q).by = c
  BY <1>1 DEF E, EventsIn
<1>8. CASE 1 \in E
  <2>1. Cardinality(E \ {1}) = Cardinality(E) - 1
    BY <1>2, <1>8, FS_RemoveElement
  <2> QED
    BY <1>2, <1>6, <1>7, <1>8, <2>1 DEF T, E
<1>9. CASE 1 \notin E
  <2>1. E \ {1} = E
    BY <1>9
  <2> QED
    <3>0. Cardinality(E) = Cardinality(T)
      BY <1>6, <2>1
    <3>1. Cardinality(E) = Cardinality(T) + 0
      BY <1>2, <3>0
    <3>2. ~(Head(q).kind = "InjectEvent" /\ Head(q).by = c)
      BY <1>7, <1>9
    <3> QED
      BY <1>2, <3>1, <3>2 DEF T, E
<1> QED
  BY <1>8, <1>9

\* A new record in the ring.
LEMMA RingPushed ==
    ASSUME RingTyped, NEW t \in Tags \cup {"Other"}, telemetryRing' = RecordPushed(t)
    PROVE  RingTyped'
<1> DEFINE S == Tags \cup {"Other"}
<1> HIDE DEF S
<1>1. /\ telemetryRing \in Seq(S) /\ Len(telemetryRing) <= RingCapacity /\ t \in S
      /\ RingCapacity \in Nat \ {0}
  BY DebugServerAssumption DEF RingTyped, S
<1>2. CASE Len(telemetryRing) < RingCapacity
  <2>1. telemetryRing' = Append(telemetryRing, t)
    BY <1>2 DEF RecordPushed
  <2>2. telemetryRing' \in Seq(S) /\ Len(telemetryRing') <= RingCapacity
    BY <1>1, <1>2, <2>1, AtTheEnd
  <2> QED
    BY <2>2 DEF RingTyped, S
<1>3. CASE ~(Len(telemetryRing) < RingCapacity)
  <2>1. telemetryRing' = Append(Tail(telemetryRing), t)
    BY <1>3 DEF RecordPushed
  <2>2. telemetryRing # <<>>
    <3>1. Len(telemetryRing) \in Nat /\ Len(telemetryRing) # 0
      BY <1>1, <1>3, LenProperties
    <3> QED
      BY <3>1
  <2>3. Tail(telemetryRing) \in Seq(S) /\ Len(Tail(telemetryRing)) = Len(telemetryRing) - 1
        /\ Len(telemetryRing) \in Nat
    BY <1>1, <2>2, FromTheFront
  <2>4. telemetryRing' \in Seq(S) /\ Len(telemetryRing') = Len(telemetryRing)
    BY <1>1, <2>1, <2>3, AtTheEnd
  <2> QED
    BY <1>1, <2>4 DEF RingTyped, S
<1> QED
  BY <1>2, <1>3

\* The values of handle_event's events, and where they come from.
LEMMA SignalsAreEvents ==
    \A k \in {"HookOff", "HookOn", "Tick", "RotaryPulse"} :
        Signal(k) \in Event /\ Signal(k).ev = k
  BY DEF Signal, Event, Signals

\* A transition of the core, with its record and the group of pulses.
LEMMA HandleSound ==
    ASSUME DebugSound, NEW k \in {"HookOff", "HookOn", "Tick", "RotaryPulse"}, NEW q,
           Source(q) \in Origins, accepting' \in BOOLEAN, Handle(Signal(k), q)
    PROVE  /\ WellFormed(core)' /\ RingTyped' /\ GroupIsCounted'
           /\ loop' \in {"free", "sending"}
<1> DEFINE e == Signal(k)
           new == handle_with_call_availability(core, e, accepting').state
<1>1. e \in Event /\ e.ev = k
  BY SignalsAreEvents
<1>2. /\ core' = new /\ telemetryRing' = RecordPushed(new.tag)
      /\ loop' \in {"free", "sending"}
      /\ group' = IF new.tag = "Dialing" /\ e.ev = "RotaryPulse"
                  THEN Append(group, Source(q)) ELSE <<>>
  BY DEF Handle
<1>3. WellFormed(core) /\ RingTyped /\ GroupIsCounted
  BY DEF DebugSound
<1>4. WellFormed(new)
  BY <1>1, <1>3, CoreStepSound DEF Sound
<1>5. new.tag \in Tags /\ (new.tag = "Dialing" => new.pulses \in 1..MAX_PULSES_PER_DIGIT)
  BY <1>4, FieldTypes
<1>6. (new.tag = "Dialing" /\ e.ev = "RotaryPulse")
        => new.pulses = IF core.tag = "Dialing" THEN core.pulses + 1 ELSE 1
  BY <1>1, <1>3, PulseCounts
<1>7. core.tag = "Dialing" => core.pulses \in 1..MAX_PULSES_PER_DIGIT
  BY <1>3, FieldTypes
<1> HIDE DEF e, new
<1>8. WellFormed(core)'
  <2>1. WellFormed(core')
    BY <1>2, <1>4
  <2> QED
    BY <2>1
<1>9. RingTyped'
  <2>1. new.tag \in Tags \cup {"Other"}
    BY <1>5
  <2> QED
    BY <1>2, <1>3, <2>1, RingPushed
<1>10. GroupIsCounted'
  <2>1. core' = new /\ group \in Seq(Origins) /\ Len(group) \in Nat
        /\ Len(group) <= (IF core.tag = "Dialing" THEN core.pulses ELSE 0)
        /\ MAX_PULSES_PER_DIGIT = 10
    BY <1>2, <1>3, LenProperties DEF GroupIsCounted, MAX_PULSES_PER_DIGIT
  <2>2. CASE new.tag = "Dialing" /\ e.ev = "RotaryPulse"
    <3>1. group' = Append(group, Source(q))
      BY <1>2, <2>2
    <3>2. group' \in Seq(Origins) /\ Len(group') = Len(group) + 1
      BY <2>1, <3>1, AtTheEnd
    <3>3. Len(group) + 1 <= new.pulses
      BY <1>6, <1>7, <2>1, <2>2
    <3> QED
      BY <2>1, <2>2, <3>2, <3>3 DEF GroupIsCounted
  <2>3. CASE ~(new.tag = "Dialing" /\ e.ev = "RotaryPulse")
    <3>1. group' = <<>> /\ <<>> \in Seq(Origins) /\ Len(<<>>) = 0
      BY <1>2, <2>3
    <3>2. Len(group') <= (IF core'.tag = "Dialing" THEN core'.pulses ELSE 0)
      BY <1>5, <2>1, <3>1
    <3> QED
      BY <3>1, <3>2 DEF GroupIsCounted
  <2> QED
    BY <2>2, <2>3
<1> QED
  BY <1>2, <1>8, <1>9, <1>10

\* A request that goes on: the others are left alone.
LEMMA RequestMoves ==
    ASSUME RequestsTyped, NEW c \in Clients, NEW new \in Asked,
           client' = [client EXCEPT ![c] = new],
           owed' \in [Clients -> Nat], handled' \in [Clients -> Nat], loop' = loop,
           new.left <= new.dial + 1, new.phase = "pulsing" => new.left > 0,
           loop # "ended" /\ new.phase # "pulsing" => new.left = 0
    PROVE  /\ RequestsTyped' /\ client'[c] = new
           /\ \A d \in Clients : d # c => client'[d] = client[d]
<1>1. client \in [Clients -> Asked]
  BY DEF RequestsTyped
<1>2. /\ client' \in [Clients -> Asked] /\ client'[c] = new
      /\ \A d \in Clients : d # c => client'[d] = client[d]
  BY <1>1
<1>3. ASSUME NEW d \in Clients
      PROVE  /\ client'[d].left <= client'[d].dial + 1
             /\ client'[d].phase = "pulsing" => client'[d].left > 0
             /\ loop' # "ended" /\ client'[d].phase # "pulsing" => client'[d].left = 0
  <2>1. CASE d = c
    BY <1>2, <2>1
  <2>2. CASE d # c
    <3>1. client'[d] = client[d]
      BY <1>2, <2>2
    <3> QED
      BY <3>1 DEF RequestsTyped
  <2> QED
    BY <2>1, <2>2
<1> QED
  BY <1>2, <1>3 DEF RequestsTyped

\* Nothing is sent, taken or asked for.
LEMMA SameRequests ==
    ASSUME DebugSound, UNCHANGED <<commands, asking>>, loop' # "ended" => loop # "ended"
    PROVE  QueueTyped' /\ RequestsTyped' /\ KeptInQueue'
<1>1. /\ commands' = commands /\ client' = client /\ owed' = owed /\ handled' = handled
  BY DEF asking
<1>2. QueueTyped /\ RequestsTyped /\ KeptInQueue
  BY DEF DebugSound
<1>3. QueueTyped'
  BY <1>1, <1>2 DEF QueueTyped
<1>4. RequestsTyped'
  BY <1>1, <1>2 DEF RequestsTyped
<1>5. KeptInQueue'
  <2> SUFFICES ASSUME loop' # "ended", NEW c \in Clients
               PROVE  handled'[c] + Cardinality(EventsIn(commands', c)) + client'[c].left = owed'[c]
    BY DEF KeptInQueue, EventsIn
  <2> QED
    BY <1>1, <1>2 DEF KeptInQueue
<1> QED
  BY <1>3, <1>4, <1>5

\* The first command of the queue is an injected event.
LEMMA HandlesInjectedSound ==
    ASSUME DebugSound, HandlesInjected  PROVE DebugSound'
<1>1. PICK q \in InQueue : q = Head(commands)
  <2>1. commands \in Seq(InQueue) /\ commands # <<>>
    BY DEF HandlesInjected, DebugSound, QueueTyped
  <2> QED
    BY <2>1, FromTheFront
<1>2. /\ commands \in Seq(InQueue) /\ commands # <<>> /\ commands' = Tail(commands)
      /\ loop = "free" /\ q.kind = "InjectEvent" /\ accepting' = accepting
      /\ Handle(Signal(q.event), q) /\ handled' = [handled EXCEPT ![q.by] = @ + 1]
      /\ client' = client /\ owed' = owed /\ moves' = moves
  BY <1>1 DEF HandlesInjected, DebugSound, QueueTyped
<1>3. /\ Tail(commands) \in Seq(InQueue) /\ Len(Tail(commands)) = Len(commands) - 1
      /\ Len(commands) \in Nat \ {0} /\ Head(commands) = commands[1]
      /\ \A i \in 1..Len(Tail(commands)) : Tail(commands)[i] = commands[i + 1]
  BY <1>2, FromTheFront
<1>4. QueueTyped /\ RequestsTyped /\ KeptInQueue /\ CommandChannel \in Nat
  BY DebugServerAssumption DEF DebugSound
<1>5. q.event \in {"Tick", "RotaryPulse"}
  <2>1. 1 \in 1..Len(commands) /\ commands[1] = q
    BY <1>1, <1>3
  <2> QED
    BY <1>2, <1>4, <2>1 DEF QueueTyped
<1>6. q.by \in Clients /\ Source(q) \in Origins
  BY DEF InQueue, Source, Origins
<1>7. /\ WellFormed(core)' /\ RingTyped' /\ GroupIsCounted' /\ loop' \in {"free", "sending"}
  <2>1. accepting' \in BOOLEAN
    BY <1>2 DEF DebugSound
  <2>2. q.event \in {"HookOff", "HookOn", "Tick", "RotaryPulse"}
    BY <1>5
  <2> QED
    BY <1>2, <1>6, <2>1, <2>2, HandleSound
<1>8. QueueTyped'
  <2>1. commands' \in Seq(InQueue) /\ Len(commands') <= CommandChannel
    BY <1>2, <1>3, <1>4 DEF QueueTyped
  <2>2. ASSUME NEW i \in 1..Len(commands'), commands'[i].kind = "InjectEvent"
        PROVE  commands'[i].event \in {"Tick", "RotaryPulse"}
    <3>1. i + 1 \in 1..Len(commands) /\ commands'[i] = commands[i + 1]
      BY <1>2, <1>3, <2>2
    <3> QED
      BY <1>4, <2>2, <3>1 DEF QueueTyped
  <2> QED
    BY <2>1, <2>2 DEF QueueTyped
<1>9. handled' \in [Clients -> Nat]
      /\ \A c \in Clients : handled'[c] = handled[c] + IF q.by = c THEN 1 ELSE 0
  <2>1. handled \in [Clients -> Nat]
    BY <1>4 DEF RequestsTyped
  <2> QED
    BY <1>2, <1>6, <2>1
<1>10. RequestsTyped'
  BY <1>2, <1>4, <1>7, <1>9 DEF RequestsTyped
<1>11. KeptInQueue'
  <2> SUFFICES ASSUME NEW c \in Clients
               PROVE  handled'[c] + Cardinality(EventsIn(commands', c)) + client'[c].left = owed'[c]
    BY DEF KeptInQueue, EventsIn
  <2>1. handled[c] + Cardinality(EventsIn(commands, c)) + client[c].left = owed[c]
    BY <1>2, <1>4 DEF KeptInQueue
  <2>2. Cardinality(EventsIn(commands, c)) =
          Cardinality(EventsIn(commands', c)) + IF q.by = c THEN 1 ELSE 0
    BY <1>1, <1>2, EventTaken
  <2>3. Cardinality(EventsIn(commands', c)) \in Nat
    <3>1. commands' \in Seq(InQueue)
      BY <1>2, <1>3
    <3> QED
      BY <1>1, <3>1, EventQueued
  <2>4. handled[c] \in Nat /\ client[c].left \in Nat /\ owed[c] \in Nat
    BY <1>4 DEF RequestsTyped, Asked
  <2>5. handled'[c] = (handled[c] + IF q.by = c THEN 1 ELSE 0) /\ client' = client /\ owed' = owed
    BY <1>2, <1>9
  <2> QED
    BY <2>1, <2>2, <2>3, <2>4, <2>5
<1>12. accepting' \in BOOLEAN /\ moves' \in 0..MaxMoves
  BY <1>2 DEF DebugSound
<1> QED
  BY <1>7, <1>8, <1>10, <1>11, <1>12 DEF DebugSound

\* The first command of the queue is a query.
LEMMA AnswersSnapshotSound ==
    ASSUME DebugSound, AnswersSnapshot  PROVE DebugSound'
<1>1. PICK q \in InQueue : q = Head(commands)
  <2>1. commands \in Seq(InQueue) /\ commands # <<>>
    BY DEF AnswersSnapshot, DebugSound, QueueTyped
  <2> QED
    BY <2>1, FromTheFront
<1>2. /\ commands \in Seq(InQueue) /\ commands # <<>> /\ commands' = Tail(commands)
      /\ q.kind = "Snapshot"
      /\ core' = core /\ accepting' = accepting /\ loop' = loop
      /\ telemetryRing' = telemetryRing /\ owed' = owed /\ group' = group
      /\ handled' = handled /\ moves' = moves
  BY <1>1 DEF AnswersSnapshot, DebugSound, QueueTyped
<1>3. /\ Tail(commands) \in Seq(InQueue) /\ Len(Tail(commands)) = Len(commands) - 1
      /\ Len(commands) \in Nat \ {0}
      /\ \A i \in 1..Len(Tail(commands)) : Tail(commands)[i] = commands[i + 1]
  BY <1>2, FromTheFront
<1>4. QueueTyped /\ RequestsTyped /\ KeptInQueue /\ CommandChannel \in Nat
  BY DebugServerAssumption DEF DebugSound
<1>5. q.by \in Clients
  BY DEF InQueue
<1>6. QueueTyped'
  <2>1. commands' \in Seq(InQueue) /\ Len(commands') <= CommandChannel
    BY <1>2, <1>3, <1>4 DEF QueueTyped
  <2>2. ASSUME NEW i \in 1..Len(commands'), commands'[i].kind = "InjectEvent"
        PROVE  commands'[i].event \in {"Tick", "RotaryPulse"}
    <3>1. i + 1 \in 1..Len(commands) /\ commands'[i] = commands[i + 1]
      BY <1>2, <1>3, <2>2
    <3> QED
      BY <1>4, <2>2, <3>1 DEF QueueTyped
  <2> QED
    BY <2>1, <2>2 DEF QueueTyped
<1>7. RequestsTyped' /\ \A c \in Clients : client'[c].left = client[c].left
  <2>1. CASE IsAwaited(q)
    <3> DEFINE new == [client[q.by] EXCEPT !.phase = "idle"]
    <3>1. client' = [client EXCEPT ![q.by] = new] /\ client[q.by].phase = "asking"
      BY <1>1, <2>1 DEF AnswersSnapshot, Answers, IsAwaited
    <3>2. /\ client[q.by] \in Asked /\ client[q.by].left <= client[q.by].dial + 1
          /\ (loop # "ended" => client[q.by].left = 0)
      BY <1>4, <1>5, <3>1 DEF RequestsTyped
    <3>3. new \in Asked /\ new.left = client[q.by].left /\ new.dial = client[q.by].dial
          /\ new.phase = "idle"
      BY <3>2 DEF Asked, Phases
    <3>4. owed' \in [Clients -> Nat] /\ handled' \in [Clients -> Nat]
      BY <1>2, <1>4 DEF RequestsTyped
    <3> HIDE DEF new
    <3>5. /\ RequestsTyped' /\ client'[q.by] = new
          /\ \A d \in Clients : d # q.by => client'[d] = client[d]
      BY <1>2, <1>4, <1>5, <3>1, <3>2, <3>3, <3>4, RequestMoves
    <3> QED
      BY <3>3, <3>5
  <2>2. CASE ~IsAwaited(q)
    <3>1. client' = client
      BY <1>1, <2>2 DEF AnswersSnapshot
    <3> QED
      BY <1>2, <1>4, <3>1 DEF RequestsTyped
  <2> QED
    BY <2>1, <2>2
<1>8. KeptInQueue'
  <2> SUFFICES ASSUME NEW c \in Clients, loop # "ended"
               PROVE  handled'[c] + Cardinality(EventsIn(commands', c)) + client'[c].left = owed'[c]
    BY <1>2 DEF KeptInQueue, EventsIn
  <2>1. handled[c] + Cardinality(EventsIn(commands, c)) + client[c].left = owed[c]
    BY <1>2, <1>4 DEF KeptInQueue
  <2>2. Cardinality(EventsIn(commands, c)) = Cardinality(EventsIn(commands', c)) + 0
    BY <1>1, <1>2, EventTaken
  <2>3. Cardinality(EventsIn(commands', c)) \in Nat
    <3>1. commands' \in Seq(InQueue)
      BY <1>2, <1>3
    <3> QED
      BY <1>1, <3>1, EventQueued
  <2> QED
    BY <1>2, <1>7, <2>1, <2>2, <2>3
<1>9. WellFormed(core)' /\ RingTyped' /\ GroupIsCounted'
  BY <1>2 DEF DebugSound, RingTyped, GroupIsCounted
<1> QED
  BY <1>2, <1>6, <1>7, <1>8, <1>9 DEF DebugSound

\* The rest of the loop, and what else happens at the booth.
LEMMA LoopMovesSound ==
    ASSUME DebugSound,
           Unblocks \/ Leaves \/ Ends \/ BoothMoves \/ \E t \in {"Error", "Other"} : Publishes(t)
    PROVE  DebugSound'
<1>1. MaxMoves \in Nat /\ CommandChannel \in Nat
  BY DebugServerAssumption
<1>2. ASSUME Unblocks \/ Leaves  PROVE DebugSound'
  <2>1. /\ UNCHANGED <<commands, asking>> /\ core' = core /\ accepting' = accepting
        /\ telemetryRing' = telemetryRing /\ group' = group
        /\ loop' \in {"free", "left"} /\ (loop' # "ended" => loop # "ended")
        /\ moves' \in 0..MaxMoves
    BY <1>1, <1>2 DEF Unblocks, Leaves, DebugSound
  <2>2. QueueTyped' /\ RequestsTyped' /\ KeptInQueue'
    BY <2>1, SameRequests
  <2>3. WellFormed(core)' /\ RingTyped' /\ GroupIsCounted' /\ accepting' \in BOOLEAN
    BY <2>1 DEF DebugSound, RingTyped, GroupIsCounted
  <2> QED
    BY <2>1, <2>2, <2>3 DEF DebugSound
<1>3. ASSUME Ends  PROVE DebugSound'
  <2>1. /\ commands' = <<>> /\ client' = client /\ owed' = owed /\ handled' = handled
        /\ core' = core /\ accepting' = accepting
        /\ telemetryRing' = telemetryRing /\ group' = group /\ loop' = "ended" /\ moves' = moves
    BY <1>3 DEF Ends, asking
  <2>2. QueueTyped'
    <3>1. <<>> \in Seq(InQueue) /\ Len(<<>>) = 0 /\ 1..0 = {}
      OBVIOUS
    <3> QED
      BY <1>1, <2>1, <3>1 DEF QueueTyped
  <2>3. RequestsTyped'
    BY <2>1 DEF DebugSound, RequestsTyped
  <2>4. KeptInQueue'
    BY <2>1 DEF KeptInQueue
  <2>5. WellFormed(core)' /\ RingTyped' /\ GroupIsCounted'
    BY <2>1 DEF DebugSound, RingTyped, GroupIsCounted
  <2>6. accepting' \in BOOLEAN /\ moves' \in 0..MaxMoves /\ loop' \in {"free", "sending", "left", "ended"}
    BY <2>1 DEF DebugSound
  <2> QED
    BY <2>2, <2>3, <2>4, <2>5, <2>6 DEF DebugSound
<1>4. ASSUME BoothMoves  PROVE DebugSound'
  <2>1. /\ loop = "free" /\ UNCHANGED <<commands, asking>> /\ accepting' \in BOOLEAN
        /\ moves' = moves + 1 /\ moves < MaxMoves
        /\ \E k \in {"HookOff", "HookOn", "Tick"} : Handle(Signal(k), Booth)
    BY <1>4 DEF BoothMoves, DebugSound
  <2>2. PICK k \in {"HookOff", "HookOn", "Tick"} : Handle(Signal(k), Booth)
    BY <2>1
  <2>3. Source(Booth) \in Origins
    BY DEF Source, Booth, Origins
  <2>4. WellFormed(core)' /\ RingTyped' /\ GroupIsCounted' /\ loop' \in {"free", "sending"}
    BY <2>1, <2>2, <2>3, HandleSound
  <2>5. QueueTyped' /\ RequestsTyped' /\ KeptInQueue'
    BY <2>1, SameRequests
  <2>6. moves' \in 0..MaxMoves
    BY <1>1, <2>1 DEF DebugSound
  <2> QED
    BY <2>1, <2>4, <2>5, <2>6 DEF DebugSound
<1>5. ASSUME NEW t \in {"Error", "Other"}, Publishes(t)  PROVE DebugSound'
  <2>1. /\ UNCHANGED <<commands, asking>> /\ core' = core /\ accepting' = accepting
        /\ loop' = loop /\ group' = group /\ telemetryRing' = RecordPushed(t)
        /\ moves' = moves + 1 /\ moves < MaxMoves
    BY <1>5 DEF Publishes
  <2>2. t \in Tags \cup {"Other"}
    BY DEF Tags
  <2>3. RingTyped'
    BY <2>1, <2>2, RingPushed DEF DebugSound
  <2>4. QueueTyped' /\ RequestsTyped' /\ KeptInQueue'
    BY <2>1, SameRequests
  <2>5. WellFormed(core)' /\ GroupIsCounted' /\ accepting' \in BOOLEAN
        /\ loop' \in {"free", "sending", "left", "ended"}
    BY <2>1 DEF DebugSound, GroupIsCounted
  <2>6. moves' \in 0..MaxMoves
    BY <1>1, <2>1 DEF DebugSound
  <2> QED
    BY <2>3, <2>4, <2>5, <2>6 DEF DebugSound
<1> QED
  BY <1>2, <1>3, <1>4, <1>5

\* What a handler leaves alone.
Booths == <<core, accepting, loop, telemetryRing, group, moves>>

\* A handler's step: its own request moves, and the balance is kept.
LEMMA HandlerMoves ==
    ASSUME DebugSound, NEW c \in Clients, NEW new \in Asked, client' = [client EXCEPT ![c] = new],
           owed' \in [Clients -> Nat], handled' = handled, UNCHANGED Booths,
           new.left <= new.dial + 1, new.phase = "pulsing" => new.left > 0,
           loop # "ended" /\ new.phase # "pulsing" => new.left = 0,
           QueueTyped',
           \A d \in Clients : d # c => /\ owed'[d] = owed[d]
                                       /\ Cardinality(EventsIn(commands', d)) = Cardinality(EventsIn(commands, d)),
           loop # "ended" => Cardinality(EventsIn(commands', c)) + new.left + owed[c]
                              = Cardinality(EventsIn(commands, c)) + client[c].left + owed'[c]
    PROVE  DebugSound'
<1>1. /\ core' = core /\ accepting' = accepting /\ loop' = loop /\ group' = group
      /\ telemetryRing' = telemetryRing /\ moves' = moves
  BY DEF Booths
<1>2. QueueTyped /\ RequestsTyped /\ KeptInQueue /\ handled' \in [Clients -> Nat]
  BY DEF DebugSound, RequestsTyped
<1>3. /\ RequestsTyped' /\ client'[c] = new
      /\ \A d \in Clients : d # c => client'[d] = client[d]
  BY <1>1, <1>2, RequestMoves
<1>4. ASSUME NEW d \in Clients
      PROVE  /\ Cardinality(EventsIn(commands', d)) \in Nat
             /\ Cardinality(EventsIn(commands, d)) \in Nat
             /\ handled[d] \in Nat /\ owed[d] \in Nat /\ owed'[d] \in Nat
             /\ client[d].left \in Nat /\ client'[d].left \in Nat
  <2>1. commands \in Seq(InQueue) /\ commands' \in Seq(InQueue)
    BY <1>2 DEF QueueTyped
  <2>2. PICK m : m = [kind |-> "Snapshot", by |-> d, request |-> 0, dial |-> 0, event |-> "none"]
    OBVIOUS
  <2>3. m \in InQueue
    BY <2>2 DEF InQueue
  <2>4. Cardinality(EventsIn(commands', d)) \in Nat /\ Cardinality(EventsIn(commands, d)) \in Nat
    BY <2>1, <2>3, EventQueued
  <2>5. handled[d] \in Nat /\ owed[d] \in Nat /\ owed'[d] \in Nat
    BY <1>2 DEF RequestsTyped
  <2>6. client[d].left \in Nat /\ client'[d].left \in Nat
    BY <1>2, <1>3 DEF RequestsTyped, Asked
  <2> QED
    BY <2>4, <2>5, <2>6
<1>5. KeptInQueue'
  <2> SUFFICES ASSUME NEW d \in Clients, loop # "ended"
               PROVE  handled'[d] + Cardinality(EventsIn(commands', d)) + client'[d].left = owed'[d]
    BY <1>1 DEF KeptInQueue, EventsIn
  <2>1. handled[d] + Cardinality(EventsIn(commands, d)) + client[d].left = owed[d]
    BY <1>2 DEF KeptInQueue
  <2>2. CASE d = c
    <3>1. Cardinality(EventsIn(commands', d)) + client'[d].left + owed[d]
            = Cardinality(EventsIn(commands, d)) + client[d].left + owed'[d]
      BY <1>3, <2>2
    <3> QED
      BY <1>4, <2>1, <3>1
  <2>3. CASE d # c
    BY <1>3, <2>1, <2>3
  <2> QED
    BY <2>2, <2>3
<1>6. WellFormed(core)' /\ RingTyped' /\ GroupIsCounted'
  BY <1>1 DEF DebugSound, RingTyped, GroupIsCounted
<1> QED
  BY <1>1, <1>3, <1>5, <1>6 DEF DebugSound

\* One more command in the queue.
LEMMA CommandQueued ==
    ASSUME DebugSound, HasRoom, NEW m \in InQueue, commands' = Append(commands, m),
           m.kind = "InjectEvent" => m.event \in {"Tick", "RotaryPulse"}
    PROVE  QueueTyped'
<1>1. commands \in Seq(InQueue) /\ QueueTyped /\ CommandChannel \in Nat
  BY DebugServerAssumption DEF DebugSound, QueueTyped
<1>2. /\ commands' \in Seq(InQueue) /\ Len(commands') = Len(commands) + 1 /\ Len(commands) \in Nat
      /\ \A i \in 1..Len(commands) : commands'[i] = commands[i]
      /\ commands'[Len(commands) + 1] = m
  BY <1>1, AtTheEnd
<1>3. Len(commands') <= CommandChannel
  BY <1>1, <1>2 DEF HasRoom
<1>4. ASSUME NEW i \in 1..Len(commands'), commands'[i].kind = "InjectEvent"
      PROVE  commands'[i].event \in {"Tick", "RotaryPulse"}
  <2>1. i \in 1..Len(commands) \/ i = Len(commands) + 1
    BY <1>2
  <2> QED
    BY <1>1, <1>2, <1>4, <2>1 DEF QueueTyped
<1> QED
  BY <1>2, <1>3, <1>4 DEF QueueTyped

\* A request that is counted, as each query of the debug server is, keeps what it still sends.
LEMMA RequestCounted ==
    ASSUME NEW r \in Asked, NEW k \in 0..MaxRequests
    PROVE  /\ [r EXCEPT !.request = k] \in Asked
           /\ [r EXCEPT !.request = k].phase = r.phase
           /\ [r EXCEPT !.request = k].left = r.left
           /\ [r EXCEPT !.request = k].dial = r.dial
  BY DEF Asked

\* A request that changes its phase keeps what it still sends.
LEMMA RequestPhased ==
    ASSUME NEW r \in Asked, NEW p \in Phases
    PROVE  /\ [r EXCEPT !.phase = p] \in Asked
           /\ [r EXCEPT !.phase = p].phase = p
           /\ [r EXCEPT !.phase = p].left = r.left
           /\ [r EXCEPT !.phase = p].dial = r.dial
  BY DEF Asked

\* A request that has sent a pulse has one fewer left.
LEMMA RequestLeft ==
    ASSUME NEW r \in Asked, NEW l \in Nat
    PROVE  /\ [r EXCEPT !.left = l] \in Asked
           /\ [r EXCEPT !.left = l].left = l
           /\ [r EXCEPT !.left = l].dial = r.dial
  BY DEF Asked

\* A client asks for the state, waits no longer, or reads it off the ring.
LEMMA QueriesSound ==
    ASSUME DebugSound, NEW c \in Clients, Asks(c) \/ TimesOut(c) \/ FallsBack(c)
    PROVE  DebugSound'
<1>1. /\ client \in [Clients -> Asked] /\ client[c] \in Asked /\ owed \in [Clients -> Nat]
      /\ client[c].left <= client[c].dial + 1
      /\ loop # "ended" /\ client[c].phase # "pulsing" => client[c].left = 0
      /\ QueueTyped /\ commands \in Seq(InQueue) /\ MaxRequests \in Nat
  BY DebugServerAssumption DEF DebugSound, RequestsTyped, QueueTyped
<1>2. ASSUME Asks(c)  PROVE DebugSound'
  <2> DEFINE new == [client[c] EXCEPT !.phase = IF HasRoom THEN "asking" ELSE "falling",
                                      !.request = @ + 1]
             m == [kind |-> "Snapshot", by |-> c, request |-> new.request,
                   dial |-> client[c].dial, event |-> "none"]
  <2>1. /\ client[c].phase = "idle" /\ client[c].request < MaxRequests
        /\ client' = [client EXCEPT ![c] = new] /\ owed' = owed /\ handled' = handled
        /\ UNCHANGED Booths
    BY <1>2 DEF Asks, Booths
  <2>2. new \in Asked /\ new.left = client[c].left /\ new.dial = client[c].dial
        /\ new.phase \in {"asking", "falling"} /\ new.request \in Nat
    <3>1. client[c].request + 1 \in 0..MaxRequests
      BY <1>1, <2>1 DEF Asked
    <3>2. (IF HasRoom THEN "asking" ELSE "falling") \in Phases \cap {"asking", "falling"}
      BY DEF Phases
    <3> PICK p \in Phases : p = IF HasRoom THEN "asking" ELSE "falling"
      BY <3>2
    <3> PICK k \in 0..MaxRequests : k = client[c].request + 1
      BY <3>1
    <3>5. new = [client[c] EXCEPT !.phase = p, !.request = k] /\ client[c] \in Asked
      BY <1>1
    <3> HIDE DEF new
    <3>6. new \in Asked /\ new.left = client[c].left /\ new.dial = client[c].dial /\ new.phase = p
      <4> PICK r \in Asked : r = client[c]
        BY <3>5
      <4> PICK a : a = [r EXCEPT !.phase = p]
        OBVIOUS
      <4>1. a \in Asked /\ a.phase = p /\ a.left = r.left /\ a.dial = r.dial
        BY RequestPhased
      <4>2. new = [a EXCEPT !.request = k]
        BY <3>5, <4>1
      <4> QED
        BY <4>1, <4>2, RequestCounted
    <3>3. new \in Asked /\ new.left = client[c].left /\ new.dial = client[c].dial
          /\ new.phase = IF HasRoom THEN "asking" ELSE "falling"
      BY <3>6
    <3>4. new.request \in Nat
      BY <1>1, <3>3 DEF Asked
    <3> QED
      BY <3>2, <3>3, <3>4
  <2>3. m \in InQueue /\ m.kind = "Snapshot"
    BY <1>1, <2>2 DEF InQueue, Asked
  <2>4. commands' = IF HasRoom THEN Append(commands, m) ELSE commands
    <3>1. client'[c] = new
      BY <1>1, <2>1
    <3>2. Queued("Snapshot", c, "none") = Append(commands, m)
      BY <3>1 DEF Queued
    <3>3. commands' = IF HasRoom THEN Queued("Snapshot", c, "none") ELSE commands
      BY <1>2 DEF Asks
    <3> QED
      BY <3>2, <3>3
  <2> HIDE DEF new, m
  <2>5. QueueTyped'
    <3>1. CASE HasRoom
      BY <2>3, <2>4, <3>1, CommandQueued
    <3>2. CASE ~HasRoom
      BY <1>1, <2>4, <3>2 DEF QueueTyped
    <3> QED
      BY <3>1, <3>2
  <2>6. ASSUME NEW d \in Clients
        PROVE  Cardinality(EventsIn(commands', d)) = Cardinality(EventsIn(commands, d))
    <3>1. CASE HasRoom
      <4>1. Cardinality(EventsIn(Append(commands, m), d)) = Cardinality(EventsIn(commands, d)) + 0
            /\ Cardinality(EventsIn(commands, d)) \in Nat
        BY <1>1, <2>3, EventQueued
      <4> QED
        BY <2>4, <3>1, <4>1
    <3>2. CASE ~HasRoom
      BY <2>4, <3>2
    <3> QED
      BY <3>1, <3>2
  <2>7. loop # "ended" => Cardinality(EventsIn(commands', c)) + new.left + owed[c]
                           = Cardinality(EventsIn(commands, c)) + client[c].left + owed'[c]
    BY <2>1, <2>2, <2>6
  <2>8. owed' \in [Clients -> Nat] /\ \A d \in Clients : owed'[d] = owed[d]
    BY <1>1, <2>1
  <2>9. /\ new.left <= new.dial + 1 /\ (new.phase = "pulsing" => new.left > 0)
        /\ (loop # "ended" /\ new.phase # "pulsing" => new.left = 0)
    BY <1>1, <2>1, <2>2
  <2> QED
    BY <2>1, <2>2, <2>5, <2>6, <2>7, <2>8, <2>9, HandlerMoves
<1>3. ASSUME TimesOut(c) \/ FallsBack(c)  PROVE DebugSound'
  <2>1. PICK phase \in {"falling", "idle"} :
             /\ client' = [client EXCEPT ![c] = [client[c] EXCEPT !.phase = phase]]
             /\ client[c].phase \in {"asking", "falling"}
             /\ commands' = commands /\ owed' = owed /\ handled' = handled /\ UNCHANGED Booths
    BY <1>3 DEF TimesOut, FallsBack, Answers, Booths
  <2> DEFINE new == [client[c] EXCEPT !.phase = phase]
  <2>2. new \in Asked /\ new.left = client[c].left /\ new.dial = client[c].dial
        /\ new.phase \in {"falling", "idle"}
    BY <1>1, <2>1 DEF Asked, Phases
  <2>3. client' = [client EXCEPT ![c] = new]
    BY <2>1
  <2> HIDE DEF new
  <2>4. QueueTyped'
    BY <1>1, <2>1 DEF QueueTyped
  <2>5. owed' \in [Clients -> Nat] /\ \A d \in Clients : owed'[d] = owed[d]
    BY <1>1, <2>1
  <2>6. /\ new.left <= new.dial + 1 /\ (new.phase = "pulsing" => new.left > 0)
        /\ (loop # "ended" /\ new.phase # "pulsing" => new.left = 0)
    BY <1>1, <2>1, <2>2
  <2>7. \A d \in Clients :
           Cardinality(EventsIn(commands', d)) = Cardinality(EventsIn(commands, d))
    BY <2>1
  <2>8. loop # "ended" => Cardinality(EventsIn(commands', c)) + new.left + owed[c]
                           = Cardinality(EventsIn(commands, c)) + client[c].left + owed'[c]
    BY <2>2, <2>5, <2>7
  <2> QED
    BY <2>1, <2>2, <2>3, <2>4, <2>5, <2>6, <2>7, <2>8, HandlerMoves
<1> QED
  BY <1>2, <1>3

\* A client dials: the request begins, sends its next event, or is told that nobody listens.
LEMMA DialsSound ==
    ASSUME DebugSound, NEW c \in Clients,
           (\E n \in Dials : SimulatesPulse(c, n)) \/ SendsNext(c) \/ IsUnavailable(c)
    PROVE  DebugSound'
<1>1. /\ client \in [Clients -> Asked] /\ client[c] \in Asked /\ owed \in [Clients -> Nat]
      /\ client[c].left <= client[c].dial + 1
      /\ (client[c].phase = "pulsing" => client[c].left > 0)
      /\ (loop # "ended" /\ client[c].phase # "pulsing" => client[c].left = 0)
      /\ QueueTyped /\ commands \in Seq(InQueue) /\ MaxRequests \in Nat /\ Dials \subseteq Nat
  BY DebugServerAssumption DEF DebugSound, RequestsTyped, QueueTyped
<1>2. client[c].left \in Nat /\ client[c].dial \in Nat /\ client[c].request \in 0..MaxRequests
      /\ owed[c] \in Nat
  BY <1>1 DEF Asked
<1>3. ASSUME NEW d \in Clients  PROVE Cardinality(EventsIn(commands, d)) \in Nat
  <2>1. PICK m : m = [kind |-> "Snapshot", by |-> d, request |-> 0, dial |-> 0, event |-> "none"]
    OBVIOUS
  <2>2. m \in InQueue
    BY <2>1 DEF InQueue
  <2> QED
    BY <1>1, <2>2, EventQueued
<1>4. ASSUME NEW n \in Dials, SimulatesPulse(c, n)  PROVE DebugSound'
  <2>1. PICK k \in {0, n + 1}, new \in Asked :
           /\ client' = [client EXCEPT ![c] = new] /\ client[c].phase # "pulsing"
           /\ owed' = [owed EXCEPT ![c] = @ + k]
           /\ \/ k = n + 1 /\ new.phase = "pulsing" /\ new.left = n + 1 /\ new.dial = n
              \/ k = 0 /\ new.phase = "idle" /\ new.left = client[c].left /\ new.dial = client[c].dial
    <3>1. CASE ControlsAllowed
      <4> DEFINE new == [phase |-> "pulsing", request |-> client[c].request + 1,
                         left |-> n + 1, dial |-> n]
      <4>1. client' = [client EXCEPT ![c] = new] /\ owed' = [owed EXCEPT ![c] = @ + n + 1]
            /\ client[c].phase = "idle" /\ client[c].request < MaxRequests
        BY <1>4, <3>1 DEF SimulatesPulse
      <4>2. new \in Asked
        BY <1>1, <1>2, <4>1 DEF Asked, Phases
      <4>3. owed' = [owed EXCEPT ![c] = @ + (n + 1)]
        <5>1. owed[c] + n + 1 = owed[c] + (n + 1)
          BY <1>1, <1>2
        <5> QED
          BY <4>1, <5>1
      <4>4. new.phase = "pulsing" /\ new.left = n + 1 /\ new.dial = n
        OBVIOUS
      <4> HIDE DEF new
      <4> QED
        BY <4>1, <4>2, <4>3, <4>4
    <3>2. CASE ~ControlsAllowed
      <4> DEFINE new == [client[c] EXCEPT !.request = @ + 1]
      <4>1. client' = [client EXCEPT ![c] = new] /\ owed' = owed
            /\ client[c].phase = "idle" /\ client[c].request < MaxRequests
        BY <1>4, <3>2 DEF SimulatesPulse
      <4>2. new \in Asked /\ new.phase = "idle" /\ new.left = client[c].left
            /\ new.dial = client[c].dial
        <5>1. client[c].request + 1 \in 0..MaxRequests
          BY <1>1, <1>2, <4>1
        <5> PICK k \in 0..MaxRequests : k = client[c].request + 1
          BY <5>1
        <5>2. new = [client[c] EXCEPT !.request = k] /\ client[c] \in Asked
          BY <1>1
        <5> HIDE DEF new
        <5>3. new \in Asked /\ new.phase = client[c].phase /\ new.left = client[c].left
              /\ new.dial = client[c].dial
          BY <5>2, RequestCounted
        <5> QED
          BY <4>1, <5>3
      <4>3. owed' = [owed EXCEPT ![c] = @ + 0]
        BY <1>1, <1>2, <4>1
      <4> HIDE DEF new
      <4> QED
        BY <4>1, <4>2, <4>3
    <3> QED
      BY <3>1, <3>2
  <2>2. commands' = commands /\ handled' = handled /\ UNCHANGED Booths /\ n \in Nat /\ k \in Nat
    BY <1>1, <1>4, <2>1 DEF SimulatesPulse, Booths
  <2>3. QueueTyped'
    BY <1>1, <2>2 DEF QueueTyped
  <2>4. owed' \in [Clients -> Nat] /\ owed'[c] = owed[c] + k
        /\ \A d \in Clients : d # c => owed'[d] = owed[d]
    BY <1>1, <1>2, <2>1, <2>2
  <2>5. /\ new.left <= new.dial + 1 /\ (new.phase = "pulsing" => new.left > 0)
        /\ (loop # "ended" /\ new.phase # "pulsing" => new.left = 0)
    BY <1>1, <2>1, <2>2
  <2>6. loop # "ended" => Cardinality(EventsIn(commands', c)) + new.left + owed[c]
                           = Cardinality(EventsIn(commands, c)) + client[c].left + owed'[c]
    <3>1. loop # "ended" => client[c].left = 0
      BY <1>1, <2>1
    <3>2. loop # "ended" => new.left = client[c].left + k
      <4>1. CASE k = 0 /\ new.left = client[c].left
        BY <1>2, <4>1
      <4>2. CASE k = n + 1 /\ new.left = n + 1
        BY <1>2, <2>2, <3>1, <4>2
      <4> QED
        BY <2>1, <4>1, <4>2
    <3>3. new.left \in Nat /\ owed'[c] = owed[c] + k
      BY <2>1, <2>4 DEF Asked
    <3>4. Cardinality(EventsIn(commands', c)) = Cardinality(EventsIn(commands, c))
          /\ Cardinality(EventsIn(commands, c)) \in Nat
      BY <1>3, <2>2
    <3> QED
      BY <1>2, <2>2, <3>2, <3>3, <3>4
  <2>7. \A d \in Clients :
           Cardinality(EventsIn(commands', d)) = Cardinality(EventsIn(commands, d))
    BY <2>2
  <2> QED
    BY <2>1, <2>2, <2>3, <2>4, <2>5, <2>6, <2>7, HandlerMoves
<1>5. ASSUME SendsNext(c)  PROVE DebugSound'
  <2> DEFINE new == [client[c] EXCEPT !.left = @ - 1,
                                      !.phase = IF client[c].left = 1 THEN "idle" ELSE @]
             m == [kind |-> "InjectEvent", by |-> c, request |-> new.request,
                   dial |-> client[c].dial,
                   event |-> IF client[c].left = 1 THEN "Tick" ELSE "RotaryPulse"]
  <2>1. /\ client[c].phase = "pulsing" /\ HasRoom
        /\ client' = [client EXCEPT ![c] = new] /\ owed' = owed /\ handled' = handled
        /\ UNCHANGED Booths
    BY <1>5 DEF SendsNext, Booths
  <2>2. new \in Asked /\ new.left = client[c].left - 1 /\ new.dial = client[c].dial
        /\ new.phase = (IF client[c].left = 1 THEN "idle" ELSE "pulsing") /\ new.request \in Nat
    <3>1. client[c].left - 1 \in Nat
      BY <1>1, <1>2, <2>1
    <3>2. (IF client[c].left = 1 THEN "idle" ELSE client[c].phase) \in Phases
      BY <2>1 DEF Phases
    <3> PICK p \in Phases : p = IF client[c].left = 1 THEN "idle" ELSE client[c].phase
      BY <3>2
    <3> PICK l \in Nat : l = client[c].left - 1
      BY <3>1
    <3>5. new = [client[c] EXCEPT !.left = l, !.phase = p] /\ client[c] \in Asked
      BY <1>1
    <3> HIDE DEF new
    <3>6. new \in Asked /\ new.left = l /\ new.dial = client[c].dial /\ new.phase = p
      <4> PICK r \in Asked : r = client[c]
        BY <3>5
      <4> PICK a : a = [r EXCEPT !.left = l]
        OBVIOUS
      <4>1. a \in Asked /\ a.left = l /\ a.dial = r.dial
        BY RequestLeft
      <4>2. new = [a EXCEPT !.phase = p]
        <5>1. new = [r EXCEPT !.left = l, !.phase = p]
          BY <3>5
        <5> QED
          BY <5>1, SMTT(30)
      <4> QED
        BY <4>1, <4>2, RequestPhased
    <3>3. new \in Asked /\ new.left = client[c].left - 1 /\ new.dial = client[c].dial
          /\ new.phase = IF client[c].left = 1 THEN "idle" ELSE client[c].phase
      BY <3>6
    <3>4. new.request \in Nat
      BY <1>1, <3>3 DEF Asked
    <3> QED
      BY <2>1, <3>3, <3>4
  <2>3. m \in InQueue /\ m.kind = "InjectEvent" /\ m.by = c /\ m.event \in {"Tick", "RotaryPulse"}
    BY <1>2, <2>2 DEF InQueue
  <2>4. commands' = Append(commands, m)
    <3>1. client'[c] = new
      BY <1>1, <2>1
    <3> QED
      BY <1>5, <3>1 DEF SendsNext, Queued
  <2> HIDE DEF new, m
  <2>5. QueueTyped'
    BY <2>1, <2>3, <2>4, CommandQueued
  <2>6. ASSUME NEW d \in Clients
        PROVE  Cardinality(EventsIn(commands', d)) =
                 Cardinality(EventsIn(commands, d)) + IF d = c THEN 1 ELSE 0
    BY <1>1, <2>3, <2>4, EventQueued
  <2>7. loop # "ended" => Cardinality(EventsIn(commands', c)) + new.left + owed[c]
                           = Cardinality(EventsIn(commands, c)) + client[c].left + owed'[c]
    BY <1>2, <1>3, <2>1, <2>2, <2>6
  <2>8. owed' \in [Clients -> Nat] /\ \A d \in Clients : d # c =>
           /\ owed'[d] = owed[d]
           /\ Cardinality(EventsIn(commands', d)) = Cardinality(EventsIn(commands, d))
    BY <1>1, <1>3, <2>1, <2>6
  <2>9. /\ new.left <= new.dial + 1 /\ (new.phase = "pulsing" => new.left > 0)
        /\ (loop # "ended" /\ new.phase # "pulsing" => new.left = 0)
    BY <1>1, <1>2, <2>1, <2>2
  <2> QED
    BY <2>1, <2>2, <2>5, <2>7, <2>8, <2>9, HandlerMoves
<1>6. ASSUME IsUnavailable(c)  PROVE DebugSound'
  <2> DEFINE new == [client[c] EXCEPT !.phase = "idle"]
  <2>1. /\ loop = "ended" /\ client' = [client EXCEPT ![c] = new] /\ commands' = commands
        /\ owed' = owed /\ handled' = handled /\ UNCHANGED Booths
    BY <1>6 DEF IsUnavailable, Answers, Booths
  <2>2. new \in Asked /\ new.left = client[c].left /\ new.dial = client[c].dial
        /\ new.phase = "idle"
    BY <1>1 DEF Asked, Phases
  <2> HIDE DEF new
  <2>3. QueueTyped'
    BY <1>1, <2>1 DEF QueueTyped
  <2>4. owed' \in [Clients -> Nat] /\ \A d \in Clients : d # c =>
           /\ owed'[d] = owed[d]
           /\ Cardinality(EventsIn(commands', d)) = Cardinality(EventsIn(commands, d))
    BY <1>1, <2>1
  <2>5. /\ new.left <= new.dial + 1 /\ (new.phase = "pulsing" => new.left > 0)
        /\ (loop # "ended" /\ new.phase # "pulsing" => new.left = 0)
    BY <1>1, <2>1, <2>2
  <2>6. loop # "ended" => Cardinality(EventsIn(commands', c)) + new.left + owed[c]
                           = Cardinality(EventsIn(commands, c)) + client[c].left + owed'[c]
    BY <2>1
  <2> QED
    BY <2>1, <2>2, <2>3, <2>4, <2>5, <2>6, HandlerMoves
<1> QED
  BY <1>4, <1>5, <1>6

\* Every step of the loop and of the handlers.
LEMMA DebugStep == DebugSound /\ [DebugNext]_debugVars => DebugSound'
<1> SUFFICES ASSUME DebugSound, [DebugNext]_debugVars  PROVE DebugSound'
  OBVIOUS
<1>1. CASE UNCHANGED debugVars
  <2>1. /\ UNCHANGED <<commands, asking>> /\ core' = core /\ accepting' = accepting
        /\ loop' = loop /\ telemetryRing' = telemetryRing /\ group' = group /\ moves' = moves
    BY <1>1 DEF debugVars, asking
  <2>2. QueueTyped' /\ RequestsTyped' /\ KeptInQueue'
    BY <2>1, SameRequests
  <2>3. WellFormed(core)' /\ RingTyped' /\ GroupIsCounted'
    BY <2>1 DEF DebugSound, RingTyped, GroupIsCounted
  <2> QED
    BY <2>1, <2>2, <2>3 DEF DebugSound
<1>2. CASE HandlesInjected \/ AnswersSnapshot
  BY <1>2, HandlesInjectedSound, AnswersSnapshotSound
<1>3. CASE Unblocks \/ Leaves \/ Ends \/ BoothMoves \/ \E t \in {"Error", "Other"} : Publishes(t)
  BY <1>3, LoopMovesSound
<1>4. CASE \E c \in Clients : Handler(c)
  BY <1>4, QueriesSound, DialsSound DEF Handler
<1> QED
  BY <1>1, <1>2, <1>3, <1>4 DEF DebugNext

\* The debug server starts with nothing asked and nothing owed.
LEMMA InitDebug == DebugInit => DebugSound
<1> SUFFICES ASSUME DebugInit  PROVE DebugSound
  OBVIOUS
<1>1. /\ MaxMoves \in Nat /\ MaxRequests \in Nat /\ CommandChannel \in Nat /\ RingCapacity \in Nat
  BY DebugServerAssumption
<1>2. /\ \A S : <<>> \in Seq(S)
      /\ Len(<<>>) = 0 /\ 1..0 = {}
  OBVIOUS
<1>3. WellFormed(core) /\ core.tag # "Dialing"
  <2>1. WellFormed(Plain("Idle")) /\ Plain("Idle").tag = "Idle"
    BY PlainWellFormed DEF Tags, CarriesQuestion, Plain, Variant
  <2>2. WellFormed(CallsPaused(TRUE)) /\ CallsPaused(TRUE).tag = "CallsPaused"
    BY PausedWellFormed DEF CallsPaused, Variant
  <2>3. core \in {Plain("Idle"), CallsPaused(TRUE)}
    BY DEF DebugInit
  <2> QED
    BY <2>1, <2>2, <2>3
<1>4. QueueTyped
  BY <1>1, <1>2 DEF DebugInit, QueueTyped
<1>5. NoRequest \in Asked /\ NoRequest.left = 0 /\ NoRequest.dial = 0 /\ NoRequest.phase = "idle"
  BY <1>1 DEF NoRequest, Asked, Phases
<1>6. RequestsTyped /\ \A c \in Clients : client[c].left = 0 /\ owed[c] = 0 /\ handled[c] = 0
  BY <1>5 DEF DebugInit, RequestsTyped
<1>7. KeptInQueue
  <2> SUFFICES ASSUME NEW c \in Clients
               PROVE  handled[c] + Cardinality(EventsIn(commands, c)) + client[c].left = owed[c]
    BY DEF KeptInQueue
  <2>1. EventsIn(commands, c) = {}
    BY <1>2 DEF EventsIn, DebugInit
  <2>2. Cardinality({}) = 0
    BY FS_EmptySet
  <2> QED
    BY <1>6, <2>1, <2>2
<1>8. GroupIsCounted /\ RingTyped
  BY <1>1, <1>2, <1>3 DEF DebugInit, GroupIsCounted, RingTyped
<1>9. accepting \in BOOLEAN /\ loop \in {"free", "sending", "left", "ended"} /\ moves \in 0..MaxMoves
  BY <1>1 DEF DebugInit
<1> QED
  BY <1>3, <1>4, <1>6, <1>7, <1>8, <1>9 DEF DebugSound

\* What is sound keeps every injected event.
LEMMA DebugSoundIsTrue == DebugSound => DebugInv
<1> SUFFICES ASSUME DebugSound  PROVE DebugInv
  OBVIOUS
<1>1. WellFormed(core) /\ QueueTyped /\ RequestsTyped /\ KeptInQueue /\ GroupIsCounted /\ RingTyped
  BY DEF DebugSound
<1>2. Len(group) <= MAX_PULSES_PER_DIGIT
  <2>1. core.tag = "Dialing" => core.pulses \in 1..MAX_PULSES_PER_DIGIT
    BY <1>1, FieldTypes
  <2>2. Len(group) \in Nat /\ Len(group) <= IF core.tag = "Dialing" THEN core.pulses ELSE 0
    BY <1>1, LenProperties DEF GroupIsCounted
  <2> QED
    BY <2>1, <2>2 DEF MAX_PULSES_PER_DIGIT
<1>3. ASSUME NEW c \in Clients
      PROVE  /\ client[c].phase \in Phases /\ client[c].request \in 0..MaxRequests
             /\ client[c].left \in 0..(client[c].dial + 1)
  <2>1. client[c] \in Asked /\ client[c].left <= client[c].dial + 1
    BY <1>1 DEF RequestsTyped
  <2> QED
    BY <2>1 DEF Asked
<1>4. DebugTypeOK
  BY <1>1, <1>2, <1>3 DEF DebugSound, DebugTypeOK, QueueTyped, RingTyped
<1>5. \A c \in Clients : Events(c) = EventsIn(commands, c)
  <2>1. DOMAIN commands = 1..Len(commands)
    BY <1>1, LenProperties DEF QueueTyped
  <2> QED
    BY <2>1 DEF Events, EventsIn
<1>6. PulsesAreKept
  BY <1>1, <1>5 DEF PulsesAreKept, KeptInQueue
<1> QED
  BY <1>4, <1>6 DEF DebugInv

\* As long as the loop runs, every event that a client's simulate/pulse owes the booth is on its
\* way exactly once - still to be sent, in the bounded queue of commands, or handled - whatever
\* the handset, the gate, other clients and their timeouts do meanwhile.
THEOREM InjectedEventsAreKept == DebugSpec => []DebugInv
<1>1. DebugInit /\ [][DebugNext]_debugVars => []DebugSound
  BY InitDebug, DebugStep, PTL
<1>2. DebugSound => DebugInv
  BY DebugSoundIsTrue
<1> QED
  BY <1>1, <1>2, PTL DEF DebugSpec
=============================================================================
