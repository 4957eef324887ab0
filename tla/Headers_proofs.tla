--------------------------- MODULE Headers_proofs ---------------------------
(***************************************************************************)
(* The stored headers are a chain through the checkpoint for any server,   *)
(* any block tree, any batch size and reorg limit, and any crash.          *)
(***************************************************************************)
EXTENDS Headers, TLAPS

\* What a server sends is a sequence of headers, honest or not.
LEMMA RepliesType ==
    ASSUME TypeOK
    PROVE  HonestReply \in Seq(Hdrs) /\ ForgedReplies \subseteq Seq(Hdrs)
<1> USE HeadersAssumption
<1>1. ChainTo[serverTip] \in Seq(Hdrs)
  BY DEF TypeOK
<1>2. Tip + 2 \in Nat \ {0} /\ min(Tip + 1 + BatchSize, Len(ChainTo[serverTip])) \in Int
      /\ min(Tip + 1 + BatchSize, Len(ChainTo[serverTip])) <= Len(ChainTo[serverTip])
  BY <1>1 DEF TypeOK, Tip, min, BatchSize
<1>3. HonestReply \in Seq(Hdrs)
  BY <1>1, <1>2 DEF HonestReply
<1>4. ForgedReplies \subseteq Seq(Hdrs)
  BY DEF ForgedReplies
<1> QED
  BY <1>3, <1>4

\* The steps that leave the file alone keep the invariant.
LEMMA SameFile ==
    ASSUME IInv, TypeOK', UNCHANGED file, pc = "down" => pc' = "down"
    PROVE  IInv'
<1>1. RecordsSound'
  BY DEF IInv, RecordsSound, Connected
<1>2. ZeroesAtEnd'
  BY DEF IInv, ZeroesAtEnd
<1> QED
  BY <1>1, <1>2 DEF IInv

\* So do the steps that cut the file off, by a reorganisation or by NewDB.
LEMMA ShorterFile ==
    ASSUME IInv, TypeOK', NEW n \in Int, n <= Len(file),
           file' = SubSeq(file, 1, n), pc = "down" => pc' = "down"
    PROVE  IInv'
<1>1. file \in Seq(Hdrs \cup {Zero})
  BY DEF IInv, TypeOK
<1>2. /\ Len(file') <= Len(file)
      /\ \A i \in 1..Len(file') : i \in 1..Len(file) /\ file'[i] = file[i]
  BY <1>1
<1>3. RecordsSound'
  <2> SUFFICES ASSUME NEW i \in 1..Len(file'), file'[i] # Zero
               PROVE  Connected(i)' /\ (i = CpHeight + 1 => file'[i] = CpHash)
    BY DEF RecordsSound
  <2>1. i \in 1..Len(file) /\ file'[i] = file[i] /\ (i # 1 => file'[i - 1] = file[i - 1])
    BY <1>1, <1>2
  <2> QED
    BY <2>1 DEF IInv, RecordsSound, Connected
<1>4. ZeroesAtEnd'
  BY <1>1, <1>2 DEF IInv, ZeroesAtEnd
<1> QED
  BY <1>3, <1>4 DEF IInv

\* canConnect lets only the right header be appended.
LEMMA LongerFile ==
    ASSUME IInv, TypeOK', NEW h \in Hdrs, pc = "batch", pc' = pc,
           ~PrevHashError(h), ~OtherError(h), file' = Append(file, h)
    PROVE  IInv'
<1> USE HeadersAssumption
<1>1. file \in Seq(Hdrs \cup {Zero}) /\ \A i \in 1..Len(file) : file[i] # Zero
  BY DEF IInv, TypeOK, ZeroesAtEnd
<1>2. /\ Len(file') = Len(file) + 1 /\ file'[Len(file) + 1] = h
      /\ \A i \in 1..Len(file) : file'[i] = file[i]
  BY <1>1
<1>3. RecordsSound'
  <2> SUFFICES ASSUME NEW i \in 1..Len(file')
               PROVE  Connected(i)' /\ (i = CpHeight + 1 => file'[i] = CpHash)
    BY DEF RecordsSound
  <2>1. CASE i = Len(file) + 1
    <3>1. CASE file = <<>>
      BY <1>2, <2>1, <3>1 DEF OtherError, Connected
    <3>2. CASE file # <<>>
      <4>1. Len(file) # 0 /\ Len(file) \in Nat
        BY <1>1, <3>2
      <4>2. h \in Sound /\ Parent[h] = file[Len(file)] /\ (Len(file) = CpHeight => h = CpHash)
        BY <3>2 DEF PrevHashError, OtherError
      <4> QED
        BY <1>2, <2>1, <4>1, <4>2 DEF Connected
    <3> QED
      BY <3>1, <3>2
  <2>2. CASE i # Len(file) + 1
    <3>1. i \in 1..Len(file) /\ file'[i] = file[i] /\ (i # 1 => file'[i - 1] = file[i - 1])
      BY <1>1, <1>2, <2>2
    <3> QED
      BY <1>1, <3>1 DEF IInv, RecordsSound, Connected
  <2> QED
    BY <2>1, <2>2
<1>4. ZeroesAtEnd'
  BY <1>1, <1>2 DEF ZeroesAtEnd
<1> QED
  BY <1>3, <1>4 DEF IInv

\* A crash leaves what was written, possibly with zero records after it.
LEMMA CrashedFile ==
    ASSUME IInv, NEW z \in Nat, Crash(z), TypeOK', z > 0 => pc # "down"
    PROVE  IInv'
<1>1. file \in Seq(Hdrs \cup {Zero})
  BY DEF IInv, TypeOK
<1> DEFINE zs == [i \in 1..z |-> Zero]
<1>2. zs \in Seq({Zero}) /\ Len(zs) = z
  OBVIOUS
<1>3. file' = file \o zs /\ pc' = "down"
  BY DEF Crash
<1>4. /\ Len(file') = Len(file) + z
      /\ \A i \in 1..Len(file) : file'[i] = file[i]
      /\ \A i \in 1..Len(file') : i > Len(file) => file'[i] = Zero
  BY <1>1, <1>2, <1>3
<1>5. RecordsSound'
  <2> SUFFICES ASSUME NEW i \in 1..Len(file'), file'[i] # Zero
               PROVE  Connected(i)' /\ (i = CpHeight + 1 => file'[i] = CpHash)
    BY DEF RecordsSound
  <2>1. i \in 1..Len(file) /\ file'[i] = file[i] /\ (i # 1 => file'[i - 1] = file[i - 1])
    BY <1>1, <1>4
  <2> QED
    BY <2>1 DEF IInv, RecordsSound, Connected
<1>6. ZeroesAtEnd'
  <2>1. CASE z = 0
    BY <1>1, <1>3, <1>4, <2>1 DEF IInv, ZeroesAtEnd
  <2>2. CASE z > 0
    BY <1>1, <1>3, <1>4, <2>2 DEF IInv, ZeroesAtEnd
  <2> QED
    BY <2>1, <2>2
<1> QED
  BY <1>5, <1>6 DEF IInv

\* Every step keeps the types.
LEMMA TypeStep ==
    ASSUME TypeOK, Next
    PROVE  TypeOK'
<1> USE HeadersAssumption
<1>1. ASSUME NEW b \in DOMAIN ChainTo, NewServerTip(b) PROVE TypeOK'
  BY <1>1 DEF TypeOK, NewServerTip, syncVars, boundVars
<1>2. CASE Initialize
  BY <1>2 DEF TypeOK, Initialize, boundVars
<1>3. CASE update
  <2>1. ServerHeight \in Int
    BY DEF TypeOK, ServerHeight
  <2> QED
    BY <1>3, <2>1 DEF TypeOK, update, boundVars
<1>4. CASE Download
  <2>1. batch' \in Seq(Hdrs)
    BY <1>4, RepliesType DEF Download
  <2>2. got' \in Nat
    BY <1>4, <2>1 DEF Download
  <2> QED
    BY <1>4, <2>1, <2>2 DEF TypeOK, Download
<1>5. CASE DownloadFails
  BY <1>5 DEF TypeOK, DownloadFails
<1>6. CASE ProcessHeader
  <2>1. batch # <<>> /\ Head(batch) \in Hdrs /\ Tail(batch) \in Seq(Hdrs)
    BY <1>6 DEF TypeOK, ProcessHeader
  <2>2. file' \in Seq(Hdrs \cup {Zero}) /\ batch' \in Seq(Hdrs) /\ pc' \in {"idle", "batch"}
    <3>1. CASE reorg
      <4>1. file' = SubSeq(file, 1, Len(file) - ReorgLimit) /\ batch' = <<>> /\ pc' = "idle"
        BY <3>1, Zenon DEF reorg
      <4>2. SubSeq(file, 1, Len(file) - ReorgLimit) \in Seq(Hdrs \cup {Zero})
        BY DEF TypeOK
      <4> QED
        BY <4>1, <4>2
    <3>2. CASE Abort
      <4>1. file' = file /\ batch' = <<>> /\ pc' = "idle"
        BY <3>2, Zenon DEF Abort
      <4> QED
        BY <4>1 DEF TypeOK
    <3>3. CASE PutHeader(Head(batch))
      <4>1. file' = Append(file, Head(batch)) /\ batch' = Tail(batch) /\ pc' = pc /\ pc = "batch"
        BY <1>6, <3>3, Zenon DEF PutHeader, ProcessHeader
      <4> QED
        BY <2>1, <4>1 DEF TypeOK
    <3> QED
      BY <1>6, <3>1, <3>2, <3>3, Zenon DEF ProcessHeader
  <2>3. kicked' \in BOOLEAN
    BY <1>6, Zenon DEF TypeOK, ProcessHeader, reorg, Abort, PutHeader
  <2>4. UNCHANGED <<serverTip, announced, targetHeight, headersPerBatch, got, lastEvent>>
    BY <1>6, Zenon DEF ProcessHeader
  <2> QED
    BY <2>2, <2>3, <2>4 DEF TypeOK
<1>7. CASE FinishBatch
  BY <1>7 DEF TypeOK, FinishBatch, boundVars
<1>8. CASE Close
  BY <1>8 DEF TypeOK, Close, boundVars
<1>9. ASSUME NEW z \in 0..MaxZeroes, Crash(z) PROVE TypeOK'
  <2>1. [i \in 1..z |-> Zero] \in Seq(Hdrs \cup {Zero})
    OBVIOUS
  <2>2. file' \in Seq(Hdrs \cup {Zero})
    BY <1>9, <2>1 DEF TypeOK, Crash
  <2>3. kicked' \in BOOLEAN /\ announced' \in BOOLEAN
    BY <1>9, Zenon DEF TypeOK, Crash
  <2>4. /\ UNCHANGED serverTip /\ pc' = "down" /\ headersPerBatch' = FirstBatch /\ targetHeight' = 0
        /\ batch' = <<>> /\ got' = 0 /\ lastEvent' = "none"
    BY <1>9, Zenon DEF Crash
  <2> QED
    BY <2>2, <2>3, <2>4 DEF TypeOK
<1>10. CASE NewDB
  <2>1. kicked' \in BOOLEAN /\ announced' \in BOOLEAN
    BY <1>10, Zenon DEF TypeOK, NewDB
  <2>2. /\ UNCHANGED <<serverTip, headersPerBatch, targetHeight, batch, got, lastEvent>>
        /\ \/ file' = SubSeq(file, 1, Len(file) - 1) /\ pc' = pc
           \/ file' = file /\ pc' = "new"
    BY <1>10, Zenon DEF NewDB
  <2>3. SubSeq(file, 1, Len(file) - 1) \in Seq(Hdrs \cup {Zero})
    BY DEF TypeOK
  <2> QED
    BY <2>1, <2>2, <2>3 DEF TypeOK
<1> QED
  BY <1>1, <1>2, <1>3, <1>4, <1>5, <1>6, <1>7, <1>8, <1>9, <1>10 DEF Next

\* The invariant is inductive.
LEMMA StepInv == IInv /\ [Next]_vars => IInv'
<1> USE HeadersAssumption
<1> SUFFICES ASSUME IInv, [Next]_vars PROVE IInv'
  OBVIOUS
<1>1. CASE UNCHANGED vars
  <2>1. TypeOK'
    BY <1>1 DEF IInv, TypeOK, vars, syncVars
  <2> QED
    BY <1>1, <2>1, SameFile DEF vars, syncVars
<1>2. CASE Next
  <2>0. TypeOK'
    BY <1>2, TypeStep DEF IInv
  <2>1. CASE \/ \E b \in DOMAIN ChainTo : NewServerTip(b)
             \/ Initialize \/ update \/ Download \/ DownloadFails \/ FinishBatch \/ Close
    <3>1. UNCHANGED file /\ (pc = "down" => pc' = "down")
      BY <2>1 DEF NewServerTip, Initialize, update, Download, DownloadFails, FinishBatch, Close, syncVars
    <3> QED
      BY <2>0, <3>1, SameFile
  <2>2. CASE ProcessHeader
    <3>1. pc = "batch" /\ Head(batch) \in Hdrs
      BY <2>2 DEF IInv, TypeOK, ProcessHeader
    <3>2. CASE reorg
      <4>1. Len(file) - ReorgLimit \in Int /\ Len(file) - ReorgLimit <= Len(file)
        BY DEF IInv, TypeOK
      <4> QED
        BY <2>0, <3>1, <3>2, <4>1, ShorterFile DEF reorg
    <3>3. CASE Abort
      BY <2>0, <3>1, <3>3, SameFile DEF Abort
    <3>4. CASE /\ ~PrevHashError(Head(batch)) /\ ~OtherError(Head(batch))
               /\ PutHeader(Head(batch))
      BY <2>0, <3>1, <3>4, LongerFile DEF PutHeader
    <3> QED
      BY <2>2, <3>2, <3>3, <3>4 DEF ProcessHeader
  <2>3. ASSUME NEW z \in 0..MaxZeroes, Crash(z) PROVE IInv'
    <3>1. z \in Nat /\ (z > 0 => pc # "down")
      BY <2>3 DEF Crash
    <3> QED
      BY <2>0, <2>3, <3>1, CrashedFile
  <2>4. CASE NewDB
    <3>1. CASE TrailingZero /\ file' = SubSeq(file, 1, Len(file) - 1) /\ UNCHANGED pc
      <4>1. Len(file) - 1 \in Int /\ Len(file) - 1 <= Len(file)
        BY DEF IInv, TypeOK
      <4> QED
        BY <2>0, <3>1, <4>1, ShorterFile
    <3>2. CASE ~TrailingZero /\ UNCHANGED file /\ pc' = "new"
      <4>1. file \in Seq(Hdrs \cup {Zero})
        BY DEF IInv, TypeOK
      <4>2. \A i \in 1..Len(file) : file[i] # Zero
        BY <3>2, <4>1 DEF IInv, ZeroesAtEnd, TrailingZero
      <4>3. RecordsSound'
        BY <3>2 DEF IInv, RecordsSound, Connected
      <4>4. ZeroesAtEnd'
        BY <3>2, <4>2 DEF IInv, ZeroesAtEnd
      <4> QED
        BY <2>0, <4>3, <4>4 DEF IInv
    <3> QED
      BY <2>4, <3>1, <3>2 DEF NewDB
  <2> QED
    BY <1>2, <2>1, <2>2, <2>3, <2>4 DEF Next
<1> QED
  BY <1>1, <1>2

\* An empty file is a chain.
LEMMA InitInv == Init => IInv
<1> SUFFICES ASSUME Init PROVE IInv
  OBVIOUS
<1>1. TypeOK
  <2>1. kicked \in BOOLEAN /\ announced \in BOOLEAN
    BY Zenon DEF Init
  <2>2. /\ serverTip = Genesis /\ file = <<>> /\ pc = "new" /\ headersPerBatch = FirstBatch
        /\ targetHeight = 0 /\ batch = <<>> /\ got = 0 /\ lastEvent = "none"
    BY Zenon DEF Init
  <2> QED
    BY <2>1, <2>2, HeadersAssumption DEF TypeOK
<1>2. file = <<>>
  BY DEF Init
<1> QED
  BY <1>1, <1>2 DEF IInv, RecordsSound, ZeroesAtEnd

\* The inductive invariant of the headers file.
THEOREM Invariance == Spec => []IInv
<1> QED
  BY InitInv, StepInv, PTL DEF Spec

\* The headers the program works with are a chain of sound headers from genesis.
THEOREM ChainConnectedHolds == Spec => []ChainConnected
<1>1. IInv => ChainConnected
  BY DEF IInv, RecordsSound, ZeroesAtEnd, ChainConnected
<1> QED
  BY Invariance, <1>1, PTL

\* A header used for verification is on a chain through the checkpoint.
THEOREM VerifiedThroughCheckpointHolds == Spec => []VerifiedThroughCheckpoint
<1>1. ASSUME IInv PROVE VerifiedThroughCheckpoint
  <2> SUFFICES ASSUME pc # "down", Tip >= CpHeight
               PROVE  file[CpHeight + 1] = CpHash
    BY <1>1, HeadersAssumption DEF VerifiedThroughCheckpoint, VerifiedHeaderByHeight, IInv, TypeOK, Tip
  <2>1. CpHeight + 1 \in 1..Len(file)
    BY <1>1, HeadersAssumption DEF IInv, TypeOK, Tip
  <2> QED
    BY <1>1, <2>1 DEF IInv, RecordsSound, ZeroesAtEnd
<1> QED
  BY Invariance, <1>1, PTL

\* The file, the batch and the download's state keep their types for any replies.
THEOREM HeadersTypeCorrect == Spec => []TypeOK
<1>1. IInv => TypeOK
  BY DEF IInv
<1> QED
  BY Invariance, <1>1, PTL
=============================================================================
