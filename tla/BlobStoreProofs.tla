-------------------------- MODULE BlobStoreProofs --------------------------
(***************************************************************************)
(* For any number of writers, keys and chunks: a disk that syncs what it   *)
(* is asked to, and S3, keep the promise of AtomicBlobs.                   *)
(***************************************************************************)
EXTENDS BlobStore, SequenceTheorems, TLAPS

(* sync_all succeeds: its error is ignored by the code, see the README. *)
DiskSyncs == Syncs \subseteq {TRUE}

(* The first n chunks of an object. *)
Run(n) == [i \in 1..n |-> i]

Places == Busy \cup {"idle", "ok", "aborted", "left"}

OwnType(w) ==
  /\ at[w] \in Places /\ sent[w] \in Nat
  /\ buf[w] \in Seq(Nat) /\ Len(buf[w]) <= PartSize
  /\ staged[w] \in Seq(Nat) \cup {NoObject}

(* What has been sent is in the file, or in the parts and the buffer. *)
SendingInv(w) ==
  /\ at[w] = "idle" => sent[w] = 0 /\ buf[w] = <<>>
  /\ at[w] = "open" => Len(buf[w]) < PartSize
  /\ at[w] \in {"open", "part", "last"} =>
       /\ sent[w] <= Size[KeyOf[w]]
       /\ staged[w] \in Seq(Nat)
       /\ IF backend = "local" THEN staged[w] = Run(sent[w])
          ELSE staged[w] \o buf[w] = Run(sent[w])
  /\ at[w] = "last" => sent[w] = Size[KeyOf[w]]
  /\ backend = "local" => at[w] \notin {"part", "last"}

(* Only a whole object is ever renamed or completed. *)
AskedInv(w) ==
  /\ w \in asked => /\ at[w] \in {"publishing", "aborting", "left"}
                    /\ staged[w] = Whole[KeyOf[w]]
  /\ at[w] = "published" => staged[w] = NoObject
  /\ at[w] \in {"ok", "aborted"} => staged[w] = NoObject \/ w \in undone

WriterInv(w) == OwnType(w) /\ SendingInv(w) /\ AskedInv(w)

KeyInv(k) == store[k] \in past[k] /\ past[k] \subseteq {NoObject, Whole[k]}

BlobInv ==
  /\ TypeOK
  /\ volatile = {}
  /\ \A w \in Writers : WriterInv(w)
  /\ \A k \in Keys : KeyInv(k)

-----------------------------------------------------------------------------
LEMMA RunFacts ==
  ASSUME NEW n \in Nat
  PROVE  /\ Run(n) \in Seq(Nat) /\ Len(Run(n)) = n
         /\ Append(Run(n), n + 1) = Run(n + 1)
         /\ Run(0) = <<>>
BY DEF Run

LEMMA ConcatFacts ==
  ASSUME NEW s \in Seq(Nat), NEW b \in Seq(Nat), NEW x \in Nat
  PROVE  /\ s \o b \in Seq(Nat)
         /\ s \o Append(b, x) = Append(s \o b, x)
         /\ s \o <<>> = s
  OBVIOUS

LEMMA WholeFacts ==
  ASSUME NEW k \in Keys
  PROVE  /\ Whole[k] = Run(Size[k])
         /\ Whole[k] \in Seq(Nat) /\ Whole[k] # NoObject
BY BlobsAssumption, RunFacts DEF Whole, Run

(* A step that leaves a writer's own state alone keeps what holds of it. *)
LEMMA Frame ==
  ASSUME NEW w \in Writers, WriterInv(w), backend' = backend,
         at'[w] = at[w], sent'[w] = sent[w], buf'[w] = buf[w],
         staged'[w] = staged[w], w \in asked' => w \in asked,
         w \in undone => w \in undone'
  PROVE  WriterInv(w)'
BY DEF WriterInv, OwnType, SendingInv, AskedInv, Whole

LEMMA InitBlob ==
  ASSUME Init PROVE BlobInv
BY BlobsAssumption DEF Init, BlobInv, TypeOK, WriterInv, OwnType, Places, SendingInv, AskedInv,
   KeyInv, Busy

(* A step that sets the state of one writer keeps the types if it does there. *)
LEMMA Types ==
  ASSUME TypeOK, NEW w \in Writers, OwnType(w)',
         UNCHANGED <<backend, volatile, past, store, undone>>,
         temps' \subseteq Writers,
         at' = [at EXCEPT ![w] = at'[w]], sent' = [sent EXCEPT ![w] = sent'[w]],
         buf' = [buf EXCEPT ![w] = buf'[w]],
         staged' = [staged EXCEPT ![w] = staged'[w]],
         asked' \subseteq Writers
  PROVE  TypeOK'
BY DEF TypeOK, OwnType, Places

(* Opening and writing keep the file, or parts and buffer, up to date. *)
LEMMA WriteStep ==
  ASSUME BlobInv, NEW w \in Writers, Write(w)
  PROVE  BlobInv'
<1> USE BlobsAssumption DEF BlobInv
<1>0. /\ UNCHANGED <<backend, volatile, past, store, undone>>
      /\ \A k \in Keys : KeyInv(k)'
  BY DEF Write, Open, OpenFails, WriteFile, WriteFileFails, BufferChunk,
         PartUploaded, PartFails, Reject, KeyInv, Whole
<1>1. ASSUME NEW v \in Writers, v # w PROVE WriterInv(v)'
  <2>1. /\ at'[v] = at[v] /\ sent'[v] = sent[v] /\ buf'[v] = buf[v]
        /\ staged'[v] = staged[v] /\ (v \in asked' => v \in asked)
    BY <1>1 DEF Write, Open, OpenFails, WriteFile, WriteFileFails, BufferChunk,
                PartUploaded, PartFails, Reject, TypeOK, Goes, Temp
  <2> QED BY <2>1, <1>0, Frame
<1>2. /\ at[w] \in Places /\ sent[w] \in Nat
      /\ buf[w] \in Seq(Nat) /\ Len(buf[w]) <= PartSize
      /\ staged[w] \in Seq(Nat) \cup {NoObject}
      /\ Size[KeyOf[w]] \in Nat \ {0} /\ asked \subseteq Writers
      /\ PartSize \in Nat \ {0} /\ <<>> \in Seq(Nat) /\ Len(<<>>) = 0
      /\ backend \in {"local", "s3"}
  BY DEF TypeOK, WriterInv, OwnType
<1>3. SendingInv(w) /\ AskedInv(w)
  BY DEF WriterInv
<1>4. OnError(w) \in {"aborting", "left"}
  BY DEF OnError
<1>5. WriterInv(w)'
  <2> USE DEF Busy, Places
  <2>1. CASE Open(w)
    <3>1. /\ at[w] = "idle" /\ at'[w] = "open" /\ sent'[w] = sent[w]
          /\ buf'[w] = buf[w] /\ staged'[w] = <<>> /\ asked' = asked
      BY <2>1, <1>2 DEF TypeOK, Open, Goes, Temp
    <3>2. sent[w] = 0 /\ buf[w] = <<>> /\ Run(0) = <<>> /\ <<>> \o <<>> = <<>>
      BY <3>1, <1>3, RunFacts DEF SendingInv
    <3> QED BY <3>1, <3>2, <1>0, <1>2, <1>3
            DEF WriterInv, OwnType, SendingInv, AskedInv, Whole
  <2>2. CASE OpenFails(w)
    <3>1. /\ at[w] = "idle" /\ at'[w] = "left" /\ asked' = asked
          /\ sent'[w] = sent[w] /\ buf'[w] = buf[w]
          /\ staged'[w] \in Seq(Nat) \cup {NoObject}
      BY <2>2, <1>2 DEF TypeOK, OpenFails, Goes, Temp
    <3> QED BY <3>1, <1>3 DEF WriterInv, OwnType, SendingInv, AskedInv, Whole
  <2>3. CASE WriteFile(w)
    <3>1. staged[w] = Run(sent[w]) /\ Append(staged[w], sent[w] + 1) = Run(sent[w] + 1)
      BY <1>2, <1>3, <2>3, RunFacts DEF WriteFile, More, SendingInv
    <3>2. /\ at'[w] = at[w] /\ sent'[w] = sent[w] + 1
          /\ buf'[w] = buf[w] /\ staged'[w] = Run(sent[w] + 1)
      BY <2>3, <3>1, <1>2, RunFacts DEF TypeOK, WriteFile, Temp
    <3>3. /\ at[w] = "open" /\ backend = "local" /\ backend' = backend /\ asked' = asked
          /\ sent[w] < Size[KeyOf[w]] /\ Run(sent[w] + 1) \in Seq(Nat)
      <4>1. sent[w] + 1 \in Nat
        BY <1>2
      <4> QED BY <2>3, <4>1, RunFacts DEF WriteFile, More
    <3>4. SendingInv(w)'
      <4>1. Len(buf[w]) < PartSize
        BY <1>3, <3>3 DEF SendingInv
      <4>2. sent'[w] <= Size[KeyOf[w]] /\ staged'[w] = Run(sent'[w])
        BY <1>2, <3>2, <3>3
      <4>3. at'[w] = "open" /\ staged'[w] \in Seq(Nat)
        BY <3>2, <3>3
      <4> QED BY <3>2, <3>3, <4>1, <4>2, <4>3 DEF SendingInv
    <3>5. AskedInv(w)'
      BY <1>3, <3>2, <3>3 DEF AskedInv, Whole
    <3> QED BY <1>2, <3>2, <3>3, <3>4, <3>5 DEF WriterInv, OwnType
  <2>4. CASE WriteFileFails(w)
    <3>1. staged[w] \in Seq(Nat) /\ Append(staged[w], 0) \in Seq(Nat)
      BY <1>3, <2>4 DEF WriteFileFails, More, SendingInv
    <3>2. /\ at'[w] = OnError(w) /\ at[w] = "open" /\ asked' = asked
          /\ sent'[w] = sent[w] /\ buf'[w] = buf[w]
          /\ staged'[w] \in Seq(Nat) \cup {NoObject}
      BY <2>4, <3>1, <1>2, <1>4 DEF TypeOK, WriteFileFails, Goes, Temp
    <3> QED BY <1>2, <1>3, <1>4, <3>2 DEF WriterInv, OwnType, SendingInv, AskedInv, Whole
  <2>5. CASE BufferChunk(w)
    <3> DEFINE a == IF Len(buf'[w]) >= PartSize THEN "part" ELSE "open"
    <3>1. /\ at[w] = "open" /\ backend = "s3" /\ Len(buf[w]) < PartSize
          /\ staged[w] \in Seq(Nat) /\ staged[w] \o buf[w] = Run(sent[w])
          /\ sent[w] < Size[KeyOf[w]]
      BY <1>3, <2>5 DEF BufferChunk, More, SendingInv
    <3>2. /\ Append(buf[w], sent[w] + 1) \in Seq(Nat)
          /\ Len(Append(buf[w], sent[w] + 1)) \in 0..PartSize
      BY <1>2, <3>1
    <3>3. /\ at'[w] = a /\ sent'[w] = sent[w] + 1
          /\ buf'[w] = Append(buf[w], sent[w] + 1) /\ staged'[w] = staged[w]
      BY <2>5, <3>2, <1>2 DEF TypeOK, BufferChunk
    <3>4. staged'[w] \o buf'[w] = Run(sent'[w])
      <4>1. staged[w] \o Append(buf[w], sent[w] + 1) = Append(Run(sent[w]), sent[w] + 1)
        <5>1. sent[w] + 1 \in Nat
          BY <1>2
        <5>2. staged[w] \o Append(buf[w], sent[w] + 1)
                = Append(staged[w] \o buf[w], sent[w] + 1)
          <6> DEFINE s == staged[w]  b == buf[w]  x == sent[w] + 1
          <6>1. s \in Seq(Nat) /\ b \in Seq(Nat) /\ x \in Nat
            BY <1>2, <3>1, <5>1
          <6> HIDE DEF s, b, x
          <6>2. s \o Append(b, x) = Append(s \o b, x)
            BY <6>1, ConcatFacts
          <6> QED BY <6>2 DEF s, b, x
        <5> QED BY <3>1, <5>2
      <4>2. Append(Run(sent[w]), sent[w] + 1) = Run(sent[w] + 1)
        BY <1>2, RunFacts
      <4> QED BY <3>3, <4>1, <4>2
    <3>5. asked' = asked /\ backend' = backend
      BY <2>5 DEF BufferChunk
    <3>6. SendingInv(w)'
      <4>1. sent'[w] <= Size[KeyOf[w]] /\ staged'[w] \in Seq(Nat) /\ backend' = "s3"
        BY <1>2, <3>1, <3>3, <3>5
      <4>2. at'[w] \in {"open", "part"} /\ (at'[w] = "open" => Len(buf'[w]) < PartSize)
        BY <1>2, <3>2, <3>3
      <4> QED BY <3>4, <4>1, <4>2 DEF SendingInv
    <3>7. AskedInv(w)'
      BY <1>3, <3>1, <3>3, <3>5 DEF AskedInv
    <3> QED BY <1>2, <3>2, <3>3, <3>6, <3>7 DEF WriterInv, OwnType
  <2>6. CASE PartUploaded(w)
    <3> DEFINE a == IF at[w] = "part" THEN "open" ELSE "publishing"
    <3>1. /\ at[w] \in {"part", "last"} /\ backend = "s3"
          /\ staged[w] \in Seq(Nat) /\ staged[w] \o buf[w] = Run(sent[w])
      BY <1>2, <1>3, <2>6 DEF PartUploaded, SendingInv, Goes
    <3>2. /\ at'[w] = a /\ sent'[w] = sent[w]
          /\ buf'[w] = <<>> /\ staged'[w] = Run(sent[w])
      BY <2>6, <3>1, <1>2, ConcatFacts DEF TypeOK, PartUploaded, Goes, Temp
    <3>3. /\ staged'[w] \in Seq(Nat) /\ staged'[w] \o buf'[w] = Run(sent[w])
      BY <1>2, <3>2, RunFacts, ConcatFacts
    <3>4. at[w] = "last" => staged'[w] = Whole[KeyOf[w]]
      BY <1>3, <3>2, WholeFacts DEF SendingInv
    <3>5. backend' = backend /\ (at[w] = "part" => asked' = asked)
      BY <2>6 DEF PartUploaded, Goes
    <3>6. SendingInv(w)'
      BY <1>2, <1>3, <3>1, <3>2, <3>3, <3>5 DEF SendingInv
    <3>7. AskedInv(w)'
      BY <1>3, <3>1, <3>2, <3>4, <3>5 DEF AskedInv, Whole
    <3> QED BY <1>2, <3>1, <3>2, <3>3, <3>6, <3>7 DEF WriterInv, OwnType
  <2>7. CASE PartFails(w)
    <3>1. /\ at'[w] = OnError(w) /\ at[w] \in {"part", "last"} /\ asked' = asked
          /\ sent'[w] = sent[w] /\ buf'[w] = <<>> /\ staged'[w] = staged[w]
      BY <2>7, <1>2, <1>4 DEF TypeOK, PartFails, Goes
    <3> QED BY <1>2, <1>3, <1>4, <3>1 DEF WriterInv, OwnType, SendingInv, AskedInv, Whole
  <2>8. CASE Reject(w)
    <3>1. /\ at'[w] = "aborting" /\ at[w] = "open" /\ asked' = asked
          /\ sent'[w] = sent[w] /\ buf'[w] = buf[w] /\ staged'[w] = staged[w]
      BY <2>8, <1>2 DEF TypeOK, Reject, Goes
    <3> QED BY <1>2, <1>3, <3>1 DEF WriterInv, OwnType, SendingInv, AskedInv, Whole
  <2> QED BY <2>1, <2>2, <2>3, <2>4, <2>5, <2>6, <2>7, <2>8 DEF Write
<1>6. TypeOK'
  <2>1. /\ at' = [at EXCEPT ![w] = at'[w]] /\ sent' = [sent EXCEPT ![w] = sent'[w]]
        /\ buf' = [buf EXCEPT ![w] = buf'[w]]
        /\ staged' = [staged EXCEPT ![w] = staged'[w]] /\ asked' \subseteq Writers
        /\ temps' \subseteq Writers
    BY <1>2 DEF Write, Open, OpenFails, WriteFile, WriteFileFails, BufferChunk,
           PartUploaded, PartFails, Reject, TypeOK, Goes, Temp
  <2> QED BY <1>0, <1>5, <2>1, Types DEF WriterInv
<1> QED BY <1>0, <1>1, <1>5, <1>6

(* Committing, aborting, and what comes late. *)
LEMMA CommitStep ==
  ASSUME BlobInv, DiskSyncs, NEW w \in Writers, Commit(w) \/ Drop(w)
  PROVE  BlobInv'
<1> USE BlobsAssumption DEF BlobInv
<1>1. /\ UNCHANGED <<backend, sent, buf, temps, undone>> /\ volatile' = {}
  BY DEF Commit, FlushFile, FlushFileFails, CommitParts, Publish, PublishFails,
         Answer, AnswerLost, Abort, AbortFails, Drop, DiskSyncs
<1>2. /\ at[w] \in Places /\ sent[w] \in Nat
      /\ buf[w] \in Seq(Nat) /\ Len(buf[w]) <= PartSize
      /\ staged[w] \in Seq(Nat) \cup {NoObject}
      /\ KeyOf[w] \in Keys /\ asked \subseteq Writers
      /\ backend \in {"local", "s3"}
  BY DEF TypeOK, WriterInv, OwnType
<1>3. SendingInv(w) /\ AskedInv(w) /\ OnError(w) \in {"aborting", "left"}
  BY DEF WriterInv, OnError
<1>4. ASSUME NEW v \in Writers, v # w PROVE WriterInv(v)'
  <2>1. /\ at'[v] = at[v] /\ staged'[v] = staged[v] /\ (v \in asked' => v \in asked)
    BY <1>4 DEF Commit, FlushFile, FlushFileFails, CommitParts, Publish, PublishFails,
         Answer, AnswerLost, Abort, AbortFails, Drop, TypeOK, Goes, Temp
  <2> QED BY <2>1, <1>1, Frame
<1>5. /\ at' = [at EXCEPT ![w] = at'[w]]
      /\ staged' = [staged EXCEPT ![w] = staged'[w]] /\ asked' \subseteq Writers
  BY <1>2 DEF Commit, FlushFile, FlushFileFails, CommitParts, Publish, PublishFails,
     Answer, AnswerLost, Abort, AbortFails, Drop, TypeOK, Goes, Temp
<1>6. WriterInv(w)'
  <2> USE DEF Busy, Places
  <2>1. CASE FlushFile(w)
    <3>1. /\ at[w] = "open" /\ at'[w] = "publishing" /\ staged' = staged
          /\ sent[w] = Size[KeyOf[w]] /\ backend = "local"
      BY <2>1, <1>2 DEF FlushFile, AllSent, Goes, TypeOK
    <3>2. staged[w] = Whole[KeyOf[w]]
      BY <1>2, <1>3, <3>1, WholeFacts DEF SendingInv
    <3> QED BY <1>1, <1>2, <1>3, <3>1, <3>2
            DEF WriterInv, OwnType, SendingInv, AskedInv, Whole
  <2>2. CASE CommitParts(w)
    <3>1. /\ at[w] = "open" /\ staged' = staged /\ backend = "s3"
          /\ sent[w] = Size[KeyOf[w]]
          /\ \/ at'[w] = "last" /\ asked' = asked
             \/ at'[w] = "publishing" /\ buf[w] = <<>>
      <4>1. \A a : Goes(w, "open", a) => at[w] = "open" /\ at'[w] = a
        BY DEF Goes, TypeOK
      <4> QED BY <2>2, <4>1 DEF CommitParts, AllSent
    <3>2. staged[w] \in Seq(Nat) /\ staged[w] \o buf[w] = Whole[KeyOf[w]]
      BY <1>2, <1>3, <3>1, WholeFacts DEF SendingInv
    <3>3. buf[w] = <<>> => staged[w] = Whole[KeyOf[w]]
      BY <3>2, ConcatFacts
    <3>4. SendingInv(w)'
      BY <1>1, <1>2, <1>3, <3>1, <3>2 DEF SendingInv
    <3>5. AskedInv(w)'
      BY <1>3, <3>1, <3>3 DEF AskedInv, Whole
    <3> QED BY <1>1, <1>2, <3>1, <3>4, <3>5 DEF WriterInv, OwnType
  <2>3. CASE Publish(w)
    <3>1. /\ w \in asked /\ w \notin asked' /\ staged'[w] = NoObject
          /\ at'[w] \in {at[w], "published"}
          /\ at[w] \in {"publishing", "aborting", "left"}
      BY <2>3, <1>2, <1>3 DEF Publish, TypeOK, Temp, AskedInv
    <3> QED BY <1>1, <1>2, <1>3, <3>1
            DEF WriterInv, OwnType, SendingInv, AskedInv, Whole
  <2>4. CASE Abort(w)
    <3>1. /\ w \notin asked' /\ staged'[w] = NoObject /\ at'[w] = "aborted"
      BY <2>4, <1>2 DEF Abort, TypeOK, Temp, Goes
    <3> QED BY <1>1, <1>2, <1>3, <3>1
            DEF WriterInv, OwnType, SendingInv, AskedInv, Whole
  <2>5. CASE Answer(w)
    <3>1. /\ at[w] = "published" /\ at'[w] = "ok" /\ staged' = staged /\ asked' = asked
      BY <2>5 DEF Answer, TypeOK, Goes
    <3> QED BY <1>1, <1>2, <1>3, <3>1
            DEF WriterInv, OwnType, SendingInv, AskedInv, Whole
  <2>6. CASE \/ FlushFileFails(w) \/ PublishFails(w) \/ AnswerLost(w)
             \/ AbortFails(w) \/ Drop(w)
    <3>1. /\ at'[w] \in {"aborting", "left"} /\ staged' = staged
          /\ (w \in asked' => w \in asked)
      BY <2>6, <1>3 DEF FlushFileFails, PublishFails, AnswerLost, AbortFails, Drop,
         TypeOK, Goes
    <3> QED BY <1>1, <1>2, <1>3, <3>1
            DEF WriterInv, OwnType, SendingInv, AskedInv, Whole
  <2> QED BY <2>1, <2>2, <2>3, <2>4, <2>5, <2>6 DEF Commit
<1>7. \A k \in Keys : KeyInv(k)' /\ past'[k] \in SUBSET (Seq(Nat) \cup {NoObject})
                                /\ store'[k] \in Seq(Nat) \cup {NoObject}
  <2>1. CASE Publish(w)
    <3>1. w \in asked /\ staged[w] = Whole[KeyOf[w]] /\ staged[w] \in Seq(Nat)
      BY <2>1, <1>2, <1>3, WholeFacts DEF Publish, AskedInv
    <3>2. /\ store' = [store EXCEPT ![KeyOf[w]] = Whole[KeyOf[w]]]
          /\ past' = [past EXCEPT ![KeyOf[w]] = @ \cup {Whole[KeyOf[w]]}]
      BY <2>1, <3>1 DEF Publish, Temp
    <3> QED BY <3>1, <3>2, <1>2 DEF TypeOK, KeyInv, Whole
  <2>2. CASE UNCHANGED <<past, store>>
    BY <2>2 DEF TypeOK, KeyInv, Whole
  <2> QED BY <2>1, <2>2 DEF Commit, FlushFile, FlushFileFails, CommitParts, PublishFails,
         Answer, AnswerLost, Abort, AbortFails, Drop
<1>8. TypeOK'
  <2>1. /\ past' = [k \in Keys |-> past'[k]] /\ store' = [k \in Keys |-> store'[k]]
    BY DEF Commit, FlushFile, FlushFileFails, CommitParts, Publish, PublishFails,
       Answer, AnswerLost, Abort, AbortFails, Drop, TypeOK
  <2> QED BY <1>1, <1>5, <1>6, <1>7, <2>1 DEF TypeOK, WriterInv, OwnType, Places
<1> QED BY <1>1, <1>4, <1>6, <1>7, <1>8

LEMMA WorldStep ==
  ASSUME BlobInv,
         \/ \E k \in Keys : Delete(k)
         \/ Crash
         \/ \E found \in [Keys -> UNION {past[k] : k \in Keys}], temp \in SUBSET temps :
              PowerLoss(found, temp)
         \/ UNCHANGED vars
  PROVE  BlobInv'
<1> USE DEF BlobInv
<1>1. ASSUME NEW k \in Keys, Delete(k) PROVE BlobInv'
  <2>1. /\ UNCHANGED <<backend, at, sent, buf, staged, asked, volatile, temps, undone>>
        /\ store' = [store EXCEPT ![k] = NoObject]
        /\ past' = [past EXCEPT ![k] = @ \cup {NoObject}]
    BY <1>1 DEF Delete
  <2>2. \A w \in Writers : WriterInv(w)'
    BY <2>1, Frame
  <2>3. \A j \in Keys : KeyInv(j)'
    BY <2>1 DEF KeyInv, TypeOK, Whole
  <2>4. TypeOK'
    BY <2>1 DEF TypeOK
  <2> QED BY <2>1, <2>2, <2>3, <2>4
<1>2. ASSUME UNCHANGED <<backend, sent, buf, staged, volatile, undone>>, at' = AllLeft,
             asked' \subseteq asked
      PROVE  \A w \in Writers : WriterInv(w)'
  <2> SUFFICES ASSUME NEW w \in Writers PROVE WriterInv(w)'
    OBVIOUS
  <2>1. CASE at[w] \in Busy
    <3>1. at'[w] = "left"
      BY <1>2, <2>1 DEF AllLeft
    <3> QED BY <3>1, <1>2
            DEF WriterInv, OwnType, Places, SendingInv, AskedInv, Whole
  <2>2. CASE at[w] \notin Busy
    BY <1>2, <2>2, Frame DEF AllLeft
  <2> QED BY <2>1, <2>2
<1>3. ASSUME at' = AllLeft PROVE at' \in [Writers -> Places]
  BY <1>3 DEF AllLeft, TypeOK, Busy, Places
<1>4. CASE Crash
  <2>1. /\ UNCHANGED <<backend, sent, buf, staged, volatile, past, store, temps, undone>>
        /\ at' = AllLeft /\ asked' \subseteq asked
    BY <1>4 DEF Crash
  <2>2. \A k \in Keys : KeyInv(k)'
    BY <2>1 DEF KeyInv, Whole
  <2>3. TypeOK'
    BY <2>1, <1>3 DEF TypeOK, Places
  <2> QED BY <2>1, <2>2, <2>3, <1>2
<1>5. ASSUME NEW found \in [Keys -> UNION {past[k] : k \in Keys}],
             NEW temp \in SUBSET temps, PowerLoss(found, temp)
      PROVE  BlobInv'
  <2>1. /\ UNCHANGED <<backend, sent, buf, volatile>>
        /\ staged' = [w \in Writers |-> IF w \in temp THEN <<>> ELSE NoObject]
        /\ temps' = temp /\ undone' = {w \in temp : at[w] \in {"ok", "aborted"}}
        /\ at' = AllLeft /\ asked' = {} /\ store' = found
        /\ past' = [k \in Keys |-> {found[k]}]
        /\ \A k \in Keys : found[k] \in past[k]
    BY <1>5 DEF PowerLoss
  <2>2. \A k \in Keys : KeyInv(k)'
    BY <2>1 DEF KeyInv, Whole
  <2>3. \A k \in Keys : found[k] \in Seq(Nat) \cup {NoObject}
    BY <2>1 DEF TypeOK
  <2>4. \A w \in Writers : staged'[w] \in Seq(Nat) \cup {NoObject}
    BY <2>1
  <2>5. TypeOK'
    BY <2>1, <2>3, <2>4, <1>3 DEF TypeOK, Places
  <2>6. ASSUME NEW w \in Writers PROVE WriterInv(w)'
    <3>1. /\ at'[w] = IF at[w] \in Busy THEN "left" ELSE at[w]
          /\ sent'[w] = sent[w] /\ buf'[w] = buf[w] /\ w \notin asked'
          /\ staged'[w] = IF w \in temp THEN <<>> ELSE NoObject
      BY <2>1 DEF AllLeft
    <3>2. OwnType(w)'
      BY <2>4, <2>6, <3>1 DEF WriterInv, OwnType, Places
    <3>3. SendingInv(w)'
      BY <2>1, <2>6, <3>1 DEF WriterInv, OwnType, SendingInv, Places, Busy
    <3>4. AskedInv(w)'
      BY <2>1, <3>1 DEF AskedInv, Busy
    <3> QED BY <3>2, <3>3, <3>4 DEF WriterInv
  <2> QED BY <2>1, <2>2, <2>5, <2>6
<1>6. CASE UNCHANGED vars
  BY <1>6, Frame DEF vars, TypeOK, KeyInv, Whole
<1> QED BY <1>1, <1>4, <1>5, <1>6

LEMMA NextStep ==
  ASSUME BlobInv, DiskSyncs, [Next]_vars PROVE BlobInv'
BY WriteStep, CommitStep, WorldStep DEF Next

(* Only whole objects are ever published, whoever publishes them and when. *)
THEOREM BlobsWhole ==
  ASSUME DiskSyncs PROVE Spec => []BlobInv
<1>1. Init => BlobInv
  BY InitBlob
<1>2. BlobInv /\ [Next]_vars => BlobInv'
  BY NextStep
<1> QED BY <1>1, <1>2, PTL DEF Spec

THEOREM TypeCorrect ==
  ASSUME DiskSyncs PROVE Spec => []TypeOK
<1>1. BlobInv => TypeOK
  BY DEF BlobInv
<1> QED BY <1>1, BlobsWhole, PTL

(* A writer that succeeded or was aborted leaves no temporary file and no      *)
(* multipart upload, which nothing would ever remove, unless a power loss gave *)
(* its file back, and nothing of it is published later.                        *)
THEOREM NothingIsLeft ==
  ASSUME DiskSyncs PROVE Spec => []NothingLeftBehind
<1>1. BlobInv => NothingLeftBehind
  BY DEF BlobInv, WriterInv, AskedInv, NothingLeftBehind
<1> QED BY <1>1, BlobsWhole, PTL
-----------------------------------------------------------------------------
(* Refinement. *)

LEMMA InitRefines ==
  ASSUME Init PROVE Promise!Init
BY DEF Init, Promise!Init, Told

(* What a step does to how its writer stands. *)
LEMMA ToldStep ==
  ASSUME BlobInv, NEW w \in Writers, at' = [at EXCEPT ![w] = at'[w]],
         asked' \cup {w} = asked \cup {w}
  PROVE  [v \in Writers |-> Told(v)]'
           = [[v \in Writers |-> Told(v)] EXCEPT ![w] = Told(w)']
<1> SUFFICES ASSUME NEW v \in Writers, v # w PROVE Told(v)' = Told(v)
  OBVIOUS
<1>1. at'[v] = at[v] /\ (v \in asked' <=> v \in asked)
  BY DEF BlobInv, TypeOK
<1> QED BY <1>1 DEF Told

(* Every step of a writer is a step of the promise, or none of its business. *)
LEMMA WriterRefines ==
  ASSUME BlobInv, NEW w \in Writers, Write(w) \/ Commit(w) \/ Drop(w)
  PROVE  [Promise!Next]_(Promise!vars)
<1> DEFINE told == [v \in Writers |-> Told(v)]
<1> DEFINE kept == {k \in Keys : past[k] # {NoObject}}
<1>1. /\ at' = [at EXCEPT ![w] = at'[w]] /\ asked' \cup {w} = asked \cup {w}
      /\ at[w] \in Places /\ SendingInv(w) /\ AskedInv(w) /\ OnError(w) \in {"aborting", "left"}
  BY DEF Write, Open, OpenFails, WriteFile, WriteFileFails, BufferChunk, PartUploaded,
     PartFails, Reject, Commit, FlushFile, FlushFileFails, CommitParts, Publish,
     PublishFails, Answer, AnswerLost, Abort, AbortFails, Drop, Goes, BlobInv, TypeOK,
     WriterInv, OnError, Places
<1>2. told' = [told EXCEPT ![w] = Told(w)'] /\ told[w] = Told(w)
  BY <1>1, ToldStep
<1>3. CASE Publish(w)
  <2>1. /\ w \in asked /\ staged[w] = Whole[KeyOf[w]] /\ KeyOf[w] \in Keys
        /\ Whole[KeyOf[w]] # NoObject /\ Whole[KeyOf[w]] \in Seq(Nat)
    BY <1>1, <1>3, BlobsAssumption, WholeFacts DEF Publish, AskedInv
  <2>2. /\ store' = [store EXCEPT ![KeyOf[w]] = Whole[KeyOf[w]]]
        /\ past' = [past EXCEPT ![KeyOf[w]] = @ \cup {Whole[KeyOf[w]]}]
        /\ at'[w] = IF at[w] = "publishing" THEN "published" ELSE at[w]
        /\ at[w] \in {"publishing", "aborting", "left"}
    BY <1>1, <1>3, <2>1 DEF Publish, Temp, AskedInv, BlobInv, TypeOK
  <2>3. /\ told[w] \in {"committing", "late"}
        /\ Told(w)' = IF told[w] = "late" THEN "gone" ELSE "published"
    BY <1>2, <1>3, <2>1, <2>2 DEF Told, Publish
  <2>4. kept' = kept \cup {KeyOf[w]}
    BY <2>1, <2>2 DEF BlobInv, TypeOK
  <2>5. Promise!Publish(w)
    BY <1>2, <2>2, <2>3, <2>4 DEF Promise!Publish
  <2> QED BY <2>5 DEF Promise!Next
<1>4. CASE ~Publish(w)
  <2>1. UNCHANGED <<store, past>>
    BY <1>4 DEF Write, Open, OpenFails, WriteFile, WriteFileFails, BufferChunk,
       PartUploaded, PartFails, Reject, Commit, FlushFile, FlushFileFails, CommitParts,
       PublishFails, Answer, AnswerLost, Abort, AbortFails, Drop
  <2>2. UNCHANGED kept
    BY <2>1
  <2>3. \/ Told(w)' = told[w]
        \/ told[w] = "writing" /\ Told(w)' = "committing"
        \/ told[w] \in {"writing", "committing", "published"} /\ Told(w)' = "gone"
        \/ told[w] = "committing" /\ Told(w)' = "late"
        \/ told[w] = "published" /\ Told(w)' = "ok"
        \/ told[w] \in {"gone", "late"} /\ Told(w)' = "aborted"
    BY <1>1, <1>2, <1>4 DEF AskedInv, Told, Places, Busy,
       Write, Open, OpenFails, WriteFile, WriteFileFails, BufferChunk,
       PartUploaded, PartFails, Reject, Commit, FlushFile, FlushFileFails, CommitParts,
       PublishFails, Answer, AnswerLost, Abort, AbortFails, Drop, Goes, More, AllSent,
       BlobInv, TypeOK
  <2>4. CASE Told(w)' = told[w]
    <3>1. UNCHANGED told
      BY <1>2, <2>4
    <3> QED BY <2>1, <2>2, <3>1 DEF Promise!vars
  <2>5. CASE \/ told[w] \in {"writing", "committing", "published"} /\ Told(w)' = "gone"
             \/ told[w] = "committing" /\ Told(w)' = "late"
    BY <1>2, <2>1, <2>2, <2>5 DEF Promise!Next, Promise!GiveUp
  <2>6. CASE told[w] = "published" /\ Told(w)' = "ok"
    BY <1>2, <2>1, <2>2, <2>6 DEF Promise!Next, Promise!Succeed
  <2>8. CASE told[w] = "writing" /\ Told(w)' = "committing"
    BY <1>2, <2>1, <2>2, <2>8 DEF Promise!Next, Promise!Commit
  <2>7. CASE told[w] \in {"gone", "late"} /\ Told(w)' = "aborted"
    BY <1>2, <2>1, <2>2, <2>7 DEF Promise!Next, Promise!Abort
  <2> QED BY <2>3, <2>4, <2>5, <2>6, <2>7, <2>8
<1> QED BY <1>3, <1>4

LEMMA StepRefines ==
  ASSUME BlobInv, [Next]_vars
  PROVE  [Promise!Next]_(Promise!vars)
<1> DEFINE told == [v \in Writers |-> Told(v)]
<1> DEFINE kept == {k \in Keys : past[k] # {NoObject}}
<1>1. ASSUME NEW k \in Keys, Delete(k) PROVE Promise!Remove(k)
  <2>1. past' = [past EXCEPT ![k] = @ \cup {NoObject}] /\ store[k] # NoObject
    BY <1>1 DEF Delete
  <2>2. past[k] # {NoObject} /\ past'[k] # {NoObject}
    BY <2>1 DEF BlobInv, KeyInv, TypeOK
  <2>3. kept' = kept
    BY <2>1, <2>2 DEF BlobInv, TypeOK
  <2>4. told' = told
    BY <1>1 DEF Delete, Told
  <2> QED BY <1>1, <2>3, <2>4 DEF Delete, Promise!Remove
<1> DEFINE cut == {w \in Writers : at[w] \in Busy \cup {"left"}}
<1>2. ASSUME at' = AllLeft, asked' \subseteq asked
      PROVE  Promise!CutOff(cut, cut \cap asked')
  <2>1. \A w \in asked : at[w] \in {"publishing", "aborting", "left"}
    BY DEF BlobInv, TypeOK, WriterInv, AskedInv
  <2>2. \A w \in cut \cap asked' : told[w] \in {"committing", "late"}
    BY <1>2, <2>1 DEF Told, BlobInv, TypeOK
  <2>3. told' = [w \in Writers |->
          CASE w \notin cut \/ told[w] \in {"ok", "aborted"} -> told[w]
            [] w \in cut \cap asked' -> "late"
            [] OTHER -> "gone"]
    <3> SUFFICES ASSUME NEW w \in Writers
                 PROVE  Told(w)' = CASE w \notin cut \/ told[w] \in {"ok", "aborted"} -> told[w]
                                     [] w \in cut \cap asked' -> "late"
                                     [] OTHER -> "gone"
      OBVIOUS
    <3>1. CASE at[w] \in Busy \cup {"left"}
      <4>1. at'[w] = "left" /\ told[w] \notin {"ok", "aborted"} /\ w \in cut
        BY <1>2, <3>1 DEF AllLeft, Told, Busy
      <4> QED BY <4>1 DEF Told
    <3>2. CASE at[w] \notin Busy \cup {"left"}
      <4>1. at'[w] = at[w] /\ w \notin cut /\ at[w] \in {"idle", "ok", "aborted"}
        BY <1>2, <3>2 DEF AllLeft, BlobInv, TypeOK
      <4> QED BY <4>1 DEF Told
    <3> QED BY <3>1, <3>2
  <2> QED BY <2>2, <2>3 DEF Promise!CutOff
<1>3. CASE Crash
  <2>1. UNCHANGED <<store, kept>> /\ at' = AllLeft /\ asked' \subseteq asked
    BY <1>3 DEF Crash
  <2>2. cut \in SUBSET Writers /\ cut \cap asked' \in SUBSET cut
    OBVIOUS
  <2> QED BY <2>1, <2>2, <1>2 DEF Promise!Next
<1>4. ASSUME NEW found \in [Keys -> UNION {past[k] : k \in Keys}],
             NEW temp \in SUBSET temps, PowerLoss(found, temp)
      PROVE  Promise!Outage({k \in Keys : found[k] # NoObject})
  <2>1. /\ store' = found /\ past' = [k \in Keys |-> {found[k]}] /\ at' = AllLeft
        /\ \A k \in Keys : found[k] \in past[k]
    BY <1>4 DEF PowerLoss
  <2>2. \A k \in Keys : found[k] \in {NoObject, Whole[k]} /\ Whole[k] # NoObject
    BY <2>1, WholeFacts DEF BlobInv, KeyInv
  <2>3. {k \in Keys : found[k] # NoObject} \subseteq kept
    BY <2>1
  <2>4. kept' = {k \in Keys : found[k] # NoObject}
    BY <2>1
  <2>5. store' = [k \in Keys |-> IF k \in {j \in Keys : found[j] # NoObject}
                                THEN Whole[k] ELSE NoObject]
    BY <2>1, <2>2
  <2> QED BY <2>1, <2>3, <2>4, <2>5 DEF Promise!Outage
<1>5. ASSUME NEW found \in [Keys -> UNION {past[k] : k \in Keys}],
             NEW temp \in SUBSET temps, PowerLoss(found, temp)
      PROVE  Promise!Next
  <2>1. /\ at' = AllLeft /\ asked' \subseteq asked
        /\ cut \in SUBSET Writers /\ cut \cap asked' \in SUBSET cut
    BY <1>5 DEF PowerLoss
  <2>2. Promise!Outage({k \in Keys : found[k] # NoObject})
    BY <1>4, <1>5
  <2> QED BY <2>1, <2>2, <1>2 DEF Promise!Next
<1>6. CASE UNCHANGED vars
  BY <1>6 DEF vars, Told, Promise!vars
<1>7. CASE \E k \in Keys : Delete(k)
  BY <1>1, <1>7 DEF Promise!Next
<1>8. CASE \E w \in Writers : Write(w) \/ Commit(w) \/ Drop(w)
  BY <1>8, WriterRefines
<1> QED BY <1>3, <1>5, <1>6, <1>7, <1>8 DEF Next

(* Both drivers keep the promise: a key never holds a part of an object, one   *)
(* reported published is there until it is removed or the power fails, and an  *)
(* aborted writer publishes nothing.                                           *)
THEOREM BlobsAtomic ==
  ASSUME DiskSyncs PROVE Spec => Atomic
<1>1. Init => Promise!Init
  BY InitRefines
<1>2. BlobInv /\ [Next]_vars => [Promise!Next]_(Promise!vars)
  BY StepRefines
<1> QED BY <1>1, <1>2, BlobsWhole, PTL DEF Spec, Atomic, Promise!Spec
=============================================================================
