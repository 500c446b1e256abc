------------------------- MODULE FileDownloadProofs -------------------------
(***************************************************************************)
(* Proofs about FileDownload, for any number of threads, files and chunks. *)
(* They all follow from DownloadInv, whose parts are kept by the lemmas     *)
(* named after them.                                                       *)
(***************************************************************************)
EXTENDS FileDownload, TLAPS

-----------------------------------------------------------------------------
(* Operators.                                                              *)

LEMMA AskType ==
  ASSUME replies \in [Keys -> 0 .. MaxReplies], NEW k \in Keys, Ask(k)
  PROVE  replies' \in [Keys -> 0 .. MaxReplies]
BY BoundAssumption DEF Ask

LEMMA RangeType ==
  ASSUME NEW S, NEW s \in Seq(S)
  PROVE  Range(s) \subseteq S
<1>1. DOMAIN s = 1 .. Len(s) /\ \A i \in 1 .. Len(s) : s[i] \in S
  OBVIOUS
<1> QED BY <1>1 DEF Range

LEMMA RangeAppend ==
  ASSUME NEW S, NEW s \in Seq(S), NEW x \in S
  PROVE  Range(Append(s, x)) = Range(s) \cup {x}
<1>1. Append(s, x) \in Seq(S) /\ Len(Append(s, x)) = Len(s) + 1 /\ Append(s, x)[Len(s) + 1] = x
  OBVIOUS
<1>2. \A i \in 1 .. Len(s) : Append(s, x)[i] = s[i]
  OBVIOUS
<1>3. DOMAIN s = 1 .. Len(s) /\ DOMAIN Append(s, x) = 1 .. (Len(s) + 1) /\ Len(s) \in Nat
  OBVIOUS
<1>4. ASSUME NEW y \in Range(Append(s, x)) PROVE y \in Range(s) \cup {x}
  <2>1. PICK i \in 1 .. (Len(s) + 1) : y = Append(s, x)[i]
    BY <1>3 DEF Range
  <2>2. CASE i = Len(s) + 1
    BY <1>1, <2>1, <2>2
  <2>3. CASE i # Len(s) + 1
    <3>1. i \in 1 .. Len(s)
      BY <1>3, <2>3
    <3> QED BY <1>2, <1>3, <2>1, <3>1 DEF Range
  <2> QED BY <2>2, <2>3
<1>5. ASSUME NEW y \in Range(s) PROVE y \in Range(Append(s, x))
  <2>1. PICK i \in 1 .. Len(s) : y = s[i]
    BY <1>3 DEF Range
  <2>2. i \in 1 .. (Len(s) + 1) /\ Append(s, x)[i] = y
    BY <1>2, <1>3, <2>1
  <2> QED BY <1>3, <2>2 DEF Range
<1>6. x \in Range(Append(s, x))
  BY <1>1, <1>3 DEF Range
<1> QED BY <1>4, <1>5, <1>6

-----------------------------------------------------------------------------
(* What a step may change.                                                 *)
LEMMA Changes ==
  ASSUME [Next]_vars
  PROVE  /\ \/ UNCHANGED metaData
            \/ \E t \in Threads : StoreMetaFile(t) \/ StoreChunk(t)
            \/ \E t \in Threads, f \in Own : ShareFile(t, f)
         /\ \/ UNCHANGED listening
            \/ \E t \in Threads : Register(t) \/ Unregister(t) \/ EndFetch(t)
         /\ \/ UNCHANGED downloads
            \/ \E t \in Threads : AddToList(t) \/ RemoveFromList(t)
         /\ \/ UNCHANGED disk
            \/ \E t \in Threads : WriteFile(t) \/ StoreOwnChunks(t)
BY ZenonT(40) DEF Next, Step, vars, shared, Crash,
       Start, StartFetch, ShareFile, LookUp, Register, StoreMetaFile, StoreChunk, CountChunk,
       CloseChannel, Unregister, EndFetch, AddToList, RequestChunk, AbandonChunk, WriteFile,
       RemoveFromList, StoreOwnChunks, Resend, HandOver, ReceiveReply, ReceiveRequest, ReceiveSearch

\* Either no list, file or thread changes, or one thread moves.
LEMMA Moves ==
  ASSUME [Next]_vars
  PROVE  \/ UNCHANGED <<shared, listening, file, key, got, pc>>
         \/ \E t \in Threads, f \in Files : Start(t, f) \/ StartFetch(t, f)
         \/ \E t \in Threads, f \in Own : ShareFile(t, f)
         \/ \E t \in Threads : Step(t) \/ HandOver(t)
BY DEF Next, vars, shared, Crash, Resend, ReceiveReply, ReceiveRequest, ReceiveSearch

LEMMA LengthType == \A f \in Files \cup Own : 
  ChunksOf[f] \in Seq(Chunks) /\ Len(ChunksOf[f]) \in Nat /\ (ChunksOf[f] # <<>> => Len(ChunksOf[f]) > 0)
BY FilesAssumption

-----------------------------------------------------------------------------
(* The threads.                                                            *)
LEMMA ThreadsTypedStep ==
  ASSUME ThreadsTyped, ThreadsInv, [Next]_vars
  PROVE  ThreadsTyped'
<1> USE DEF ThreadsTyped, ThreadsInv, Agree, Keys, At, Goto, Crash, shared, Labels
<1>1. ASSUME NEW t \in Threads, NEW f \in Files, Start(t, f) PROVE ThreadsTyped'
  <2>1. got[t] = 0 /\ got' = got /\ file' = [file EXCEPT ![t] = f] /\ pc'[t] \in {"add", "look"}
    BY <1>1 DEF Start
  <2>2. key' \in [Threads -> Keys \cup {None}] /\ pc' \in [Threads -> Labels]
    BY <1>1 DEF Start
  <2>3. file' \in [Threads -> Files \cup Own \cup {None}] /\ file'[t] = f
    BY <2>1
  <2>4. ASSUME NEW u \in Threads
        PROVE  got'[u] <= (IF file'[u] = None THEN 0 ELSE Len(ChunksOf[file'[u]]))
    <3>1. CASE u = t
      BY <2>1, <2>3, <3>1, LengthType, ThreadsAssumption
    <3>2. CASE u # t
      BY <2>1, <3>2
    <3> QED BY <3>1, <3>2
  <2> QED BY <2>1, <2>2, <2>3, <2>4
<1>2. ASSUME NEW t \in Threads, NEW f \in Files, StartFetch(t, f) PROVE ThreadsTyped'
  BY <1>2, LengthType, ThreadsAssumption DEF StartFetch
<1>3. ASSUME NEW t \in Threads, NEW f \in Own, ShareFile(t, f) PROVE ThreadsTyped'
  BY <1>3, LengthType, ThreadsAssumption DEF ShareFile
<1>4. ASSUME NEW t \in Threads, LookUp(t) PROVE ThreadsTyped'
  BY <1>4, LengthType, ThreadsAssumption DEF LookUp
<1>5. ASSUME NEW t \in Threads, Register(t) PROVE ThreadsTyped'
  BY <1>5, LengthType, ThreadsAssumption DEF Register
<1>6. ASSUME NEW t \in Threads, StoreMetaFile(t) PROVE ThreadsTyped'
  BY <1>6, LengthType, ThreadsAssumption DEF StoreMetaFile
<1>7. ASSUME NEW t \in Threads, StoreChunk(t) PROVE ThreadsTyped'
  BY <1>7, LengthType, ThreadsAssumption DEF StoreChunk
<1>8. ASSUME NEW t \in Threads, CountChunk(t) PROVE ThreadsTyped'
  <2>1. pc[t] = "count" /\ file[t] \in Files /\ got[t] < Len(ChunksOf[file[t]])
    BY <1>8 DEF CountChunk, InOrder, AtKey
  <2>2. CASE UNCHANGED <<file, key, got, pc>>
    BY <2>2
  <2>3. CASE got' = [got EXCEPT ![t] = @ + 1] /\ pc' = [pc EXCEPT ![t] = "close"] /\ UNCHANGED <<file, key>>
    BY <2>1, <2>3, LengthType, ThreadsAssumption
  <2> QED BY <1>8, <2>2, <2>3 DEF CountChunk
<1>9. ASSUME NEW t \in Threads, CloseChannel(t) PROVE ThreadsTyped'
  BY <1>9, LengthType, ThreadsAssumption DEF CloseChannel
<1>10. ASSUME NEW t \in Threads, Unregister(t) PROVE ThreadsTyped'
  BY <1>10, LengthType, ThreadsAssumption DEF Unregister, AfterKey, AtKey
<1>11. ASSUME NEW t \in Threads, EndFetch(t) PROVE ThreadsTyped'
  BY <1>11, LengthType, ThreadsAssumption DEF EndFetch
<1>12. ASSUME NEW t \in Threads, AddToList(t) PROVE ThreadsTyped'
  BY <1>12, LengthType, ThreadsAssumption, ZenonT(40) DEF AddToList, AtKey
<1>13. ASSUME NEW t \in Threads, RequestChunk(t) PROVE ThreadsTyped'
  BY <1>13, LengthType, ThreadsAssumption DEF RequestChunk, InOrder, AtKey
<1>14. ASSUME NEW t \in Threads, AbandonChunk(t) PROVE ThreadsTyped'
  BY <1>14, LengthType, ThreadsAssumption DEF AbandonChunk
<1>15. ASSUME NEW t \in Threads, WriteFile(t) PROVE ThreadsTyped'
  BY <1>15, LengthType, ThreadsAssumption DEF WriteFile
<1>16. ASSUME NEW t \in Threads, RemoveFromList(t) PROVE ThreadsTyped'
  BY <1>16, LengthType, ThreadsAssumption DEF RemoveFromList
<1>17. ASSUME NEW t \in Threads, StoreOwnChunks(t) PROVE ThreadsTyped'
  BY <1>17, LengthType, ThreadsAssumption DEF StoreOwnChunks
<1>18. ASSUME NEW t \in Threads, HandOver(t) PROVE ThreadsTyped'
  BY <1>18, LengthType, ThreadsAssumption DEF HandOver
<1>19. CASE UNCHANGED <<shared, listening, file, key, got, pc>>
  BY <1>19
<1> QED
  BY <1>1, <1>2, <1>3, <1>4, <1>5, <1>6, <1>7, <1>8, <1>9, <1>10, <1>11, <1>12, <1>13, <1>14,
     <1>15, <1>16, <1>17, <1>18, <1>19, Moves DEF Step
LEMMA AgreeStep ==
  ASSUME ThreadsTyped, ThreadsInv, NEW u \in Threads, [Next]_vars
  PROVE  Agree(u)'
<1> USE DEF ThreadsTyped, ThreadsInv, Agree, AtKey, Keys, At, Goto, Crash, shared, Labels
<1>1. ASSUME NEW t \in Threads, NEW f \in Files, Start(t, f) PROVE Agree(u)'
  BY <1>1, LengthType, ThreadsAssumption DEF Start
<1>2. ASSUME NEW t \in Threads, NEW f \in Files, StartFetch(t, f) PROVE Agree(u)'
  BY <1>2, LengthType, ThreadsAssumption DEF StartFetch
<1>3. ASSUME NEW t \in Threads, NEW f \in Own, ShareFile(t, f) PROVE Agree(u)'
  BY <1>3, LengthType, ThreadsAssumption DEF ShareFile
<1>4. ASSUME NEW t \in Threads, LookUp(t) PROVE Agree(u)'
  BY <1>4, LengthType, ThreadsAssumption DEF LookUp
<1>5. ASSUME NEW t \in Threads, Register(t) PROVE Agree(u)'
  BY <1>5, LengthType, ThreadsAssumption DEF Register
<1>6. ASSUME NEW t \in Threads, StoreMetaFile(t) PROVE Agree(u)'
  BY <1>6, LengthType, ThreadsAssumption DEF StoreMetaFile
<1>7. ASSUME NEW t \in Threads, StoreChunk(t) PROVE Agree(u)'
  BY <1>7, LengthType, ThreadsAssumption DEF StoreChunk
<1>8. ASSUME NEW t \in Threads, CountChunk(t) PROVE Agree(u)'
  BY <1>8, LengthType, ThreadsAssumption DEF CountChunk
<1>9. ASSUME NEW t \in Threads, CloseChannel(t) PROVE Agree(u)'
  BY <1>9, LengthType, ThreadsAssumption DEF CloseChannel
<1>10. ASSUME NEW t \in Threads, Unregister(t) PROVE Agree(u)'
  BY <1>10, LengthType, ThreadsAssumption, FilesAssumption DEF Unregister, AfterKey
<1>11. ASSUME NEW t \in Threads, EndFetch(t) PROVE Agree(u)'
  BY <1>11, LengthType, ThreadsAssumption, FilesAssumption DEF EndFetch
<1>12. ASSUME NEW t \in Threads, AddToList(t) PROVE Agree(u)'
  <2>1. UNCHANGED <<file, key, got, searching>> /\ pc[t] = "add"
    BY <1>12 DEF AddToList
  <2>2. PICK l \in {"over", "write", "request"} : pc' = [pc EXCEPT ![t] = l]
    BY <1>12 DEF AddToList
  <2> QED BY <2>1, <2>2
<1>13. ASSUME NEW t \in Threads, RequestChunk(t) PROVE Agree(u)'
  <2>1. file[t] \in Files /\ ChunksOf[file[t]][got[t] + 1] \in Chunks
    BY <1>13, LengthType DEF RequestChunk, InOrder
  <2>2. ChunksOf[file[t]][got[t] + 1] \notin Files
    BY <2>1, FilesAssumption
  <2> QED BY <1>13, <2>1, <2>2, ThreadsAssumption DEF RequestChunk
<1>14. ASSUME NEW t \in Threads, AbandonChunk(t) PROVE Agree(u)'
  BY <1>14, LengthType, ThreadsAssumption DEF AbandonChunk
<1>15. ASSUME NEW t \in Threads, WriteFile(t) PROVE Agree(u)'
  BY <1>15, LengthType, ThreadsAssumption DEF WriteFile
<1>16. ASSUME NEW t \in Threads, RemoveFromList(t) PROVE Agree(u)'
  BY <1>16, LengthType, ThreadsAssumption DEF RemoveFromList
<1>17. ASSUME NEW t \in Threads, StoreOwnChunks(t) PROVE Agree(u)'
  BY <1>17, LengthType, ThreadsAssumption DEF StoreOwnChunks
<1>18. ASSUME NEW t \in Threads, HandOver(t) PROVE Agree(u)'
  BY <1>18, LengthType, ThreadsAssumption DEF HandOver
<1>19. CASE UNCHANGED <<shared, listening, file, key, got, pc>>
  BY <1>19 DEF vars
<1> QED
  BY <1>1, <1>2, <1>3, <1>4, <1>5, <1>6, <1>7, <1>8, <1>9, <1>10, <1>11, <1>12, <1>13, <1>14,
     <1>15, <1>16, <1>17, <1>18, <1>19, Moves DEF Step

-----------------------------------------------------------------------------
(* The listed download, the chunk it asks for, the keys it registers.      *)
LEMMA EnlistedStep ==
  ASSUME ThreadsTyped, ListsTyped, ThreadsInv, NEW u \in Threads, [Next]_vars
  PROVE  Enlisted(u)'
<1> USE DEF ThreadsTyped, ThreadsInv, Agree, Enlisted, Downloading, AtKey, Keys, At, Goto, Crash, shared, Labels
<1>1. ASSUME NEW t \in Threads, NEW f \in Files, Start(t, f) PROVE Enlisted(u)'
  BY <1>1, FilesAssumption, ThreadsAssumption DEF Start
<1>2. ASSUME NEW t \in Threads, NEW f \in Files, StartFetch(t, f) PROVE Enlisted(u)'
  BY <1>2, FilesAssumption, ThreadsAssumption DEF StartFetch
<1>3. ASSUME NEW t \in Threads, NEW f \in Own, ShareFile(t, f) PROVE Enlisted(u)'
  BY <1>3, FilesAssumption, ThreadsAssumption DEF ShareFile
<1>4. ASSUME NEW t \in Threads, LookUp(t) PROVE Enlisted(u)'
  BY <1>4, FilesAssumption, ThreadsAssumption DEF LookUp
<1>5. ASSUME NEW t \in Threads, Register(t) PROVE Enlisted(u)'
  BY <1>5, FilesAssumption, ThreadsAssumption DEF Register
<1>6. ASSUME NEW t \in Threads, StoreMetaFile(t) PROVE Enlisted(u)'
  BY <1>6, FilesAssumption, ThreadsAssumption DEF StoreMetaFile
<1>7. ASSUME NEW t \in Threads, StoreChunk(t) PROVE Enlisted(u)'
  BY <1>7, FilesAssumption, ThreadsAssumption DEF StoreChunk
<1>8. ASSUME NEW t \in Threads, CountChunk(t) PROVE Enlisted(u)'
  BY <1>8, FilesAssumption, ThreadsAssumption DEF CountChunk
<1>9. ASSUME NEW t \in Threads, CloseChannel(t) PROVE Enlisted(u)'
  BY <1>9, FilesAssumption, ThreadsAssumption DEF CloseChannel
<1>10. ASSUME NEW t \in Threads, Unregister(t) PROVE Enlisted(u)'
  BY <1>10, FilesAssumption, ThreadsAssumption DEF Unregister, AfterKey
<1>11. ASSUME NEW t \in Threads, EndFetch(t) PROVE Enlisted(u)'
  BY <1>11, FilesAssumption, ThreadsAssumption DEF EndFetch
<1>12. ASSUME NEW t \in Threads, AddToList(t) PROVE Enlisted(u)'
  BY <1>12, FilesAssumption, ThreadsAssumption DEF AddToList, ListsTyped
<1>13. ASSUME NEW t \in Threads, RequestChunk(t) PROVE Enlisted(u)'
  BY <1>13, FilesAssumption, ThreadsAssumption DEF RequestChunk
<1>14. ASSUME NEW t \in Threads, AbandonChunk(t) PROVE Enlisted(u)'
  BY <1>14, FilesAssumption, ThreadsAssumption DEF AbandonChunk
<1>15. ASSUME NEW t \in Threads, WriteFile(t) PROVE Enlisted(u)'
  BY <1>15, FilesAssumption, ThreadsAssumption DEF WriteFile
<1>16. ASSUME NEW t \in Threads, RemoveFromList(t) PROVE Enlisted(u)'
  BY <1>16, FilesAssumption, ThreadsAssumption DEF RemoveFromList, ListsTyped
<1>17. ASSUME NEW t \in Threads, StoreOwnChunks(t) PROVE Enlisted(u)'
  BY <1>17, FilesAssumption, ThreadsAssumption DEF StoreOwnChunks
<1>18. ASSUME NEW t \in Threads, HandOver(t) PROVE Enlisted(u)'
  BY <1>18, FilesAssumption, ThreadsAssumption DEF HandOver
<1>19. CASE UNCHANGED <<shared, listening, file, key, got, pc>>
  BY <1>19
<1> QED
  BY <1>1, <1>2, <1>3, <1>4, <1>5, <1>6, <1>7, <1>8, <1>9, <1>10, <1>11, <1>12, <1>13, <1>14,
     <1>15, <1>16, <1>17, <1>18, <1>19, Moves DEF Step

LEMMA InOrderStep ==
  ASSUME ThreadsTyped, ListsTyped, ThreadsInv, NEW u \in Threads, [Next]_vars
  PROVE  InOrder(u)'
<1> USE DEF ThreadsTyped, ThreadsInv, Agree, InOrder, AtKey, Keys, At, Goto, Crash, shared, Labels
<1>1. ASSUME NEW t \in Threads, NEW f \in Files, Start(t, f) PROVE InOrder(u)'
  BY <1>1, FilesAssumption, ThreadsAssumption DEF Start
<1>2. ASSUME NEW t \in Threads, NEW f \in Files, StartFetch(t, f) PROVE InOrder(u)'
  BY <1>2, FilesAssumption, ThreadsAssumption DEF StartFetch
<1>3. ASSUME NEW t \in Threads, NEW f \in Own, ShareFile(t, f) PROVE InOrder(u)'
  BY <1>3, FilesAssumption, ThreadsAssumption DEF ShareFile
<1>4. ASSUME NEW t \in Threads, LookUp(t) PROVE InOrder(u)'
  BY <1>4, FilesAssumption, ThreadsAssumption DEF LookUp
<1>5. ASSUME NEW t \in Threads, Register(t) PROVE InOrder(u)'
  BY <1>5, FilesAssumption, ThreadsAssumption DEF Register
<1>6. ASSUME NEW t \in Threads, StoreMetaFile(t) PROVE InOrder(u)'
  BY <1>6, FilesAssumption, ThreadsAssumption DEF StoreMetaFile
<1>7. ASSUME NEW t \in Threads, StoreChunk(t) PROVE InOrder(u)'
  BY <1>7, FilesAssumption, ThreadsAssumption DEF StoreChunk
<1>8. ASSUME NEW t \in Threads, CountChunk(t) PROVE InOrder(u)'
  BY <1>8, FilesAssumption, ThreadsAssumption DEF CountChunk
<1>9. ASSUME NEW t \in Threads, CloseChannel(t) PROVE InOrder(u)'
  BY <1>9, FilesAssumption, ThreadsAssumption DEF CloseChannel
<1>10. ASSUME NEW t \in Threads, Unregister(t) PROVE InOrder(u)'
  BY <1>10, FilesAssumption, ThreadsAssumption DEF Unregister, AfterKey
<1>11. ASSUME NEW t \in Threads, EndFetch(t) PROVE InOrder(u)'
  <2>1. UNCHANGED <<file, key, got, disk>> /\ (pc' = [pc EXCEPT ![t] = "add"] \/ pc' = [pc EXCEPT ![t] = "over"])
    BY <1>11 DEF EndFetch
  <2>2. pc'[u] = pc[u] \/ pc'[u] \in {"add", "over"}
    BY <2>1
  <2>3. InOrder(u)
    OBVIOUS
  <2> QED BY <2>1, <2>2, <2>3
<1>12. ASSUME NEW t \in Threads, AddToList(t) PROVE InOrder(u)'
  <2>1. UNCHANGED <<file, key, got, disk>> /\ file[t] \in Files /\ key[t] \notin Chunks /\ got[t] = 0
    BY <1>12 DEF AddToList
  <2>2. PICK l \in {"over", "write", "request"} :
          pc' = [pc EXCEPT ![t] = l] /\ (l = "request" => ChunksOf[file[t]] # <<>>)
    BY <1>12 DEF AddToList
  <2>3. l = "request" => 0 < Len(ChunksOf[file[t]])
    BY <2>1, <2>2, LengthType
  <2> QED BY <2>1, <2>2, <2>3
<1>13. ASSUME NEW t \in Threads, RequestChunk(t) PROVE InOrder(u)'
  BY <1>13, FilesAssumption, ThreadsAssumption DEF RequestChunk
<1>14. ASSUME NEW t \in Threads, AbandonChunk(t) PROVE InOrder(u)'
  BY <1>14, FilesAssumption, ThreadsAssumption DEF AbandonChunk
<1>15. ASSUME NEW t \in Threads, WriteFile(t) PROVE InOrder(u)'
  BY <1>15, FilesAssumption, ThreadsAssumption DEF WriteFile
<1>16. ASSUME NEW t \in Threads, RemoveFromList(t) PROVE InOrder(u)'
  BY <1>16, FilesAssumption, ThreadsAssumption DEF RemoveFromList
<1>17. ASSUME NEW t \in Threads, StoreOwnChunks(t) PROVE InOrder(u)'
  BY <1>17, FilesAssumption, ThreadsAssumption DEF StoreOwnChunks
<1>18. ASSUME NEW t \in Threads, HandOver(t) PROVE InOrder(u)'
  BY <1>18, FilesAssumption, ThreadsAssumption DEF HandOver
<1>19. CASE UNCHANGED <<shared, listening, file, key, got, pc>>
  BY <1>19
<1> QED
  BY <1>1, <1>2, <1>3, <1>4, <1>5, <1>6, <1>7, <1>8, <1>9, <1>10, <1>11, <1>12, <1>13, <1>14,
     <1>15, <1>16, <1>17, <1>18, <1>19, Moves DEF Step

LEMMA KeptStep ==
  ASSUME ThreadsTyped, ListsTyped, ThreadsInv, NEW u \in Threads, [Next]_vars
  PROVE  Kept(u)'
<1> USE DEF ThreadsTyped, ThreadsInv, Agree, Kept, AtKey, Keys, At, Goto, Crash, shared, Labels
<1>1. ASSUME NEW t \in Threads, NEW f \in Files, Start(t, f) PROVE Kept(u)'
  <2>1. listening' = listening /\ UNCHANGED got /\ f \notin Chunks
    BY <1>1, FilesAssumption DEF Start
  <2>2. \/ key' = key /\ pc' = [pc EXCEPT ![t] = "add"]
        \/ key' = [key EXCEPT ![t] = f] /\ pc' = [pc EXCEPT ![t] = "look"]
    BY <1>1 DEF Start
  <2>3. pc'[u] \in {"add", "look"} \/ (pc'[u] = pc[u] /\ key'[u] = key[u])
    BY <2>2
  <2>4. Kept(u)
    OBVIOUS
  <2> QED BY <2>1, <2>3, <2>4
<1>2. ASSUME NEW t \in Threads, NEW f \in Files, StartFetch(t, f) PROVE Kept(u)'
  BY <1>2, FilesAssumption, ThreadsAssumption DEF StartFetch
<1>3. ASSUME NEW t \in Threads, NEW f \in Own, ShareFile(t, f) PROVE Kept(u)'
  BY <1>3, FilesAssumption, ThreadsAssumption DEF ShareFile
<1>4. ASSUME NEW t \in Threads, LookUp(t) PROVE Kept(u)'
  BY <1>4, FilesAssumption, ThreadsAssumption DEF LookUp
<1>5. ASSUME NEW t \in Threads, Register(t) PROVE Kept(u)'
  BY <1>5, FilesAssumption, ThreadsAssumption DEF Register, ListsTyped
<1>6. ASSUME NEW t \in Threads, StoreMetaFile(t) PROVE Kept(u)'
  BY <1>6, FilesAssumption, ThreadsAssumption DEF StoreMetaFile
<1>7. ASSUME NEW t \in Threads, StoreChunk(t) PROVE Kept(u)'
  BY <1>7, FilesAssumption, ThreadsAssumption DEF StoreChunk
<1>8. ASSUME NEW t \in Threads, CountChunk(t) PROVE Kept(u)'
  BY <1>8, FilesAssumption, ThreadsAssumption DEF CountChunk
<1>9. ASSUME NEW t \in Threads, CloseChannel(t) PROVE Kept(u)'
  BY <1>9, FilesAssumption, ThreadsAssumption DEF CloseChannel
<1>10. ASSUME NEW t \in Threads, Unregister(t) PROVE Kept(u)'
  BY <1>10, FilesAssumption, ThreadsAssumption DEF Unregister, AfterKey, ListsTyped
<1>11. ASSUME NEW t \in Threads, EndFetch(t) PROVE Kept(u)'
  BY <1>11, FilesAssumption, ThreadsAssumption DEF EndFetch, ListsTyped
<1>12. ASSUME NEW t \in Threads, AddToList(t) PROVE Kept(u)'
  BY <1>12, FilesAssumption, ThreadsAssumption DEF AddToList
<1>13. ASSUME NEW t \in Threads, RequestChunk(t) PROVE Kept(u)'
  BY <1>13, FilesAssumption, ThreadsAssumption DEF RequestChunk
<1>14. ASSUME NEW t \in Threads, AbandonChunk(t) PROVE Kept(u)'
  BY <1>14, FilesAssumption, ThreadsAssumption DEF AbandonChunk
<1>15. ASSUME NEW t \in Threads, WriteFile(t) PROVE Kept(u)'
  BY <1>15, FilesAssumption, ThreadsAssumption DEF WriteFile
<1>16. ASSUME NEW t \in Threads, RemoveFromList(t) PROVE Kept(u)'
  BY <1>16, FilesAssumption, ThreadsAssumption DEF RemoveFromList
<1>17. ASSUME NEW t \in Threads, StoreOwnChunks(t) PROVE Kept(u)'
  BY <1>17, FilesAssumption, ThreadsAssumption DEF StoreOwnChunks
<1>18. ASSUME NEW t \in Threads, HandOver(t) PROVE Kept(u)'
  BY <1>18, FilesAssumption, ThreadsAssumption DEF HandOver
<1>19. CASE UNCHANGED <<shared, listening, file, key, got, pc>>
  BY <1>19
<1> QED
  BY <1>1, <1>2, <1>3, <1>4, <1>5, <1>6, <1>7, <1>8, <1>9, <1>10, <1>11, <1>12, <1>13, <1>14,
     <1>15, <1>16, <1>17, <1>18, <1>19, Moves DEF Step

\* A thread that fetches chunks has just begun, goes on, or has one more.
Goes(u) ==
  Downloading(u)' =>
    \/ got'[u] = 0
    \/ Downloading(u) /\ file'[u] = file[u] /\ got'[u] = got[u]
    \/ CountChunk(u) /\ file'[u] = file[u] /\ key[u] \in Chunks /\ got'[u] = got[u] + 1

LEMMA GoesStep ==
  ASSUME ThreadsTyped, ThreadsInv, NEW u \in Threads, [Next]_vars
  PROVE  Goes(u)
<1> USE DEF ThreadsTyped, ThreadsInv, Agree, Goes, Downloading, AtKey, Keys, At, Goto, Crash, shared, Labels
<1>1. ASSUME NEW t \in Threads, NEW f \in Files, Start(t, f) PROVE Goes(u)
  BY <1>1, FilesAssumption, ThreadsAssumption DEF Start
<1>2. ASSUME NEW t \in Threads, NEW f \in Files, StartFetch(t, f) PROVE Goes(u)
  BY <1>2, FilesAssumption, ThreadsAssumption DEF StartFetch
<1>3. ASSUME NEW t \in Threads, NEW f \in Own, ShareFile(t, f) PROVE Goes(u)
  BY <1>3, FilesAssumption, ThreadsAssumption DEF ShareFile
<1>4. ASSUME NEW t \in Threads, LookUp(t) PROVE Goes(u)
  BY <1>4, FilesAssumption, ThreadsAssumption DEF LookUp
<1>5. ASSUME NEW t \in Threads, Register(t) PROVE Goes(u)
  BY <1>5, FilesAssumption, ThreadsAssumption DEF Register
<1>6. ASSUME NEW t \in Threads, StoreMetaFile(t) PROVE Goes(u)
  BY <1>6, FilesAssumption, ThreadsAssumption DEF StoreMetaFile
<1>7. ASSUME NEW t \in Threads, StoreChunk(t) PROVE Goes(u)
  BY <1>7, FilesAssumption, ThreadsAssumption DEF StoreChunk
<1>8. ASSUME NEW t \in Threads, CountChunk(t) PROVE Goes(u)
  BY <1>8, FilesAssumption, ThreadsAssumption DEF CountChunk
<1>9. ASSUME NEW t \in Threads, CloseChannel(t) PROVE Goes(u)
  BY <1>9, FilesAssumption, ThreadsAssumption DEF CloseChannel
<1>10. ASSUME NEW t \in Threads, Unregister(t) PROVE Goes(u)
  BY <1>10, FilesAssumption, ThreadsAssumption DEF Unregister, AfterKey
<1>11. ASSUME NEW t \in Threads, EndFetch(t) PROVE Goes(u)
  BY <1>11, FilesAssumption, ThreadsAssumption DEF EndFetch
<1>12. ASSUME NEW t \in Threads, AddToList(t) PROVE Goes(u)
  BY <1>12, FilesAssumption, ThreadsAssumption DEF AddToList
<1>13. ASSUME NEW t \in Threads, RequestChunk(t) PROVE Goes(u)
  BY <1>13, FilesAssumption, ThreadsAssumption DEF RequestChunk
<1>14. ASSUME NEW t \in Threads, AbandonChunk(t) PROVE Goes(u)
  BY <1>14, FilesAssumption, ThreadsAssumption DEF AbandonChunk
<1>15. ASSUME NEW t \in Threads, WriteFile(t) PROVE Goes(u)
  BY <1>15, FilesAssumption, ThreadsAssumption DEF WriteFile
<1>16. ASSUME NEW t \in Threads, RemoveFromList(t) PROVE Goes(u)
  BY <1>16, FilesAssumption, ThreadsAssumption DEF RemoveFromList
<1>17. ASSUME NEW t \in Threads, StoreOwnChunks(t) PROVE Goes(u)
  BY <1>17, FilesAssumption, ThreadsAssumption DEF StoreOwnChunks
<1>18. ASSUME NEW t \in Threads, HandOver(t) PROVE Goes(u)
  BY <1>18, FilesAssumption, ThreadsAssumption DEF HandOver
<1>19. CASE UNCHANGED <<shared, listening, file, key, got, pc>>
  BY <1>19
<1> QED
  BY <1>1, <1>2, <1>3, <1>4, <1>5, <1>6, <1>7, <1>8, <1>9, <1>10, <1>11, <1>12, <1>13, <1>14,
     <1>15, <1>16, <1>17, <1>18, <1>19, Moves DEF Step

\* The key of a chunk that was registered is never free again.
LEMMA KeysStay ==
  ASSUME TypeOK, ThreadsInv, [Next]_vars, NEW k \in Chunks, listening[k] # None
  PROVE  listening'[k] # None
<1>1. k \in Keys /\ k \notin Files
  BY FilesAssumption DEF Keys
<1>2. ASSUME NEW t \in Threads, Register(t) PROVE listening'[k] # None
  BY <1>1, <1>2, ThreadsAssumption DEF Register, TypeOK, ListsTyped
<1>3. ASSUME NEW t \in Threads, Unregister(t) PROVE listening'[k] # None
  BY <1>1, <1>3, ThreadsAssumption DEF Unregister, TypeOK, ListsTyped
<1>4. ASSUME NEW t \in Threads, EndFetch(t) PROVE listening'[k] # None
  <2>1. key[t] \in Files
    BY <1>4 DEF EndFetch, ThreadsInv, Agree
  <2> QED BY <1>1, <1>4, <2>1 DEF EndFetch, TypeOK, ListsTyped
<1> QED BY <1>2, <1>3, <1>4, Changes

LEMMA FetchedStep ==
  ASSUME TypeOK, ThreadsInv, NEW u \in Threads, [Next]_vars
  PROVE  Fetched(u)'
<1> SUFFICES ASSUME Downloading(u)', NEW i \in 1 .. got'[u]
             PROVE  listening'[ChunksOf[file'[u]][i]] # None
  BY DEF Fetched
<1>1. got[u] \in Nat /\ got'[u] \in Nat
  BY ThreadsTypedStep DEF TypeOK, ThreadsTyped
<1>2. CASE got'[u] = 0
  BY <1>1, <1>2
<1>3. CASE Downloading(u) /\ file'[u] = file[u] /\ got'[u] = got[u]
  <2>1. listening[ChunksOf[file[u]][i]] # None
    BY <1>3 DEF ThreadsInv, Fetched
  <2>2. file[u] \in Files /\ file[u] # None
    BY <1>3, ThreadsAssumption DEF ThreadsInv, Enlisted, Keys
  <2>3. Len(ChunksOf[file[u]]) \in Nat /\ got[u] <= Len(ChunksOf[file[u]])
    BY <2>2, LengthType DEF TypeOK, ThreadsTyped
  <2>4. i \in 1 .. Len(ChunksOf[file[u]])
    BY <1>1, <1>3, <2>3
  <2>5. ChunksOf[file[u]][i] \in Chunks
    BY <2>2, <2>4, LengthType
  <2> QED BY <1>3, <2>1, <2>5, KeysStay
<1>4. CASE CountChunk(u) /\ file'[u] = file[u] /\ key[u] \in Chunks /\ got'[u] = got[u] + 1
  <2>1. pc[u] = "count"
    BY <1>4 DEF CountChunk, At
  <2>2. Downloading(u) /\ file[u] \in Files
    BY <1>4, <2>1 DEF Downloading, ThreadsInv, Enlisted
  <2>3. got[u] < Len(ChunksOf[file[u]]) /\ key[u] = ChunksOf[file[u]][got[u] + 1]
    BY <1>4, <2>1 DEF ThreadsInv, InOrder
  <2>4. listening[key[u]] # None
    BY <1>4, <2>1 DEF ThreadsInv, Kept
  <2>5. listening[ChunksOf[file[u]][i]] # None
    <3>1. i \in 1 .. got[u] \/ i = got[u] + 1
      BY <1>1, <1>4
    <3> QED BY <2>2, <2>3, <2>4, <3>1 DEF ThreadsInv, Fetched
  <2>6. i \in 1 .. Len(ChunksOf[file[u]])
    BY <1>1, <1>4, <2>2, <2>3, LengthType
  <2> QED BY <1>4, <2>2, <2>5, <2>6, LengthType, KeysStay
<1> QED BY <1>2, <1>3, <1>4, GoesStep DEF Goes, TypeOK

-----------------------------------------------------------------------------
(* The ChunkMaps: whatever they lack is asked for once.                    *)

\* A ChunkMap stays, starts out empty or with all chunks, or gets one more.
LEMMA MapChanges ==
  ASSUME ThreadsTyped, ThreadsInv, [Next]_vars, NEW f \in DOMAIN metaData'
  PROVE  \/ f \in DOMAIN metaData /\ metaData'[f] = metaData[f]
         \/ f \notin DOMAIN metaData /\ f \in Files /\ metaData'[f] = <<>>
         \/ /\ f \notin DOMAIN metaData /\ f \in Own
            /\ metaData'[f] = [i \in DOMAIN ChunksOf[f] |-> i]
            /\ \E t \in Threads : pc'[t] = "chunks" /\ file'[t] = f
         \/ /\ f \in DOMAIN metaData
            /\ \E t \in Threads :
                 StoreChunk(t) /\ f = file[t] /\ metaData'[f] = Append(metaData[f], got[t] + 1)
<1>1. CASE UNCHANGED metaData
  BY <1>1
<1>2. ASSUME NEW t \in Threads, StoreMetaFile(t)
      PROVE  \/ f \in DOMAIN metaData /\ metaData'[f] = metaData[f]
             \/ f \notin DOMAIN metaData /\ f \in Files /\ metaData'[f] = <<>>
  BY <1>2 DEF StoreMetaFile, Listed
<1>3. ASSUME NEW t \in Threads, StoreChunk(t)
      PROVE  /\ f \in DOMAIN metaData
             /\ \/ metaData'[f] = metaData[f]
                \/ f = file[t] /\ metaData'[f] = Append(metaData[f], got[t] + 1)
  BY <1>3 DEF StoreChunk, ChunkNumber
<1>4. ASSUME NEW t \in Threads, NEW g \in Own, ShareFile(t, g)
      PROVE  \/ f \in DOMAIN metaData /\ metaData'[f] = metaData[f]
             \/ /\ f \notin DOMAIN metaData /\ f \in Own
                /\ metaData'[f] = [i \in DOMAIN ChunksOf[f] |-> i]
                /\ pc'[t] = "chunks" /\ file'[t] = f
  BY <1>4 DEF ShareFile, Listed, Goto, ThreadsTyped
<1> QED BY <1>1, <1>2, <1>3, <1>4, Changes

\* What a thread adds to a ChunkMap is the chunk it fetched, which comes after
\* all those that are there.
LEMMA StoredChunk ==
  ASSUME TypeOK, ThreadsInv, NEW t \in Threads, StoreChunk(t), file[t] \in DOMAIN metaData
  PROVE  /\ file[t] \in Files /\ downloads[file[t]] = t
         /\ got[t] + 1 \in 1 .. Len(ChunksOf[file[t]])
         /\ \A i \in 1 .. got[t] + 1 : listening[ChunksOf[file[t]][i]] # None
         /\ \A i \in Range(metaData[file[t]]) : i <= got[t]
         /\ metaData[file[t]] \in Seq(1 .. Len(ChunksOf[file[t]]))
<1>1. pc[t] = "store" /\ key[t] \in Chunks
  BY DEF StoreChunk, At
<1>2. file[t] \in Files /\ downloads[file[t]] = t /\ Downloading(t)
  BY <1>1 DEF ThreadsInv, Enlisted, Downloading
<1>3. got[t] < Len(ChunksOf[file[t]]) /\ key[t] = ChunksOf[file[t]][got[t] + 1]
  BY <1>1 DEF ThreadsInv, InOrder
<1>4. listening[key[t]] # None /\ \A i \in Range(metaData[file[t]]) : i <= got[t]
  BY <1>1 DEF ThreadsInv, Kept, IsNew
<1>5. \A i \in 1 .. got[t] : listening[ChunksOf[file[t]][i]] # None
  BY <1>2 DEF ThreadsInv, Fetched
<1>6. \A i \in 1 .. got[t] + 1 : i \in 1 .. got[t] \/ i = got[t] + 1
  BY DEF TypeOK, ThreadsTyped
<1> QED BY <1>2, <1>3, <1>4, <1>5, <1>6, LengthType DEF TypeOK, ThreadsTyped, ListsTyped

LEMMA MapsTypedStep ==
  ASSUME TypeOK, ThreadsInv, [Next]_vars
  PROVE  /\ DOMAIN metaData' \subseteq Files \cup Own
         /\ \A f \in DOMAIN metaData' : metaData'[f] \in Seq(1 .. Len(ChunksOf[f]))
<1> SUFFICES ASSUME NEW f \in DOMAIN metaData'
             PROVE  f \in Files \cup Own /\ metaData'[f] \in Seq(1 .. Len(ChunksOf[f]))
  OBVIOUS
<1>1. CASE f \in DOMAIN metaData /\ metaData'[f] = metaData[f]
  BY <1>1 DEF TypeOK, ListsTyped
<1>2. CASE f \in Files /\ metaData'[f] = <<>>
  BY <1>2
<1>3. CASE f \in Own /\ metaData'[f] = [i \in DOMAIN ChunksOf[f] |-> i]
  <2>1. DOMAIN ChunksOf[f] = 1 .. Len(ChunksOf[f]) /\ Len(ChunksOf[f]) \in Nat
    BY <1>3, LengthType
  <2> QED BY <1>3, <2>1
<1>4. ASSUME NEW t \in Threads, StoreChunk(t), f = file[t], f \in DOMAIN metaData,
             metaData'[f] = Append(metaData[f], got[t] + 1)
      PROVE  f \in Files \cup Own /\ metaData'[f] \in Seq(1 .. Len(ChunksOf[f]))
  BY <1>4, StoredChunk
<1> QED BY <1>1, <1>2, <1>3, <1>4, MapChanges DEF TypeOK

LEMMA MapsKeptStep ==
  ASSUME TypeOK, ThreadsInv, MapsKept, [Next]_vars
  PROVE  MapsKept'
<1> SUFFICES ASSUME NEW f \in DOMAIN metaData', f \in Files,
                    NEW last \in Range(metaData'[f]), NEW i \in 1 .. last
             PROVE  listening'[ChunksOf[f][i]] # None
  BY DEF MapsKept
<1>1. ChunksOf[f][i] \in Chunks
  <2>1. last \in 1 .. Len(ChunksOf[f])
    BY MapsTypedStep DEF Range
  <2>2. i \in 1 .. Len(ChunksOf[f])
    BY <2>1, LengthType
  <2> QED BY <2>2, LengthType
<1>2. listening[ChunksOf[f][i]] # None
  <2>1. CASE f \in DOMAIN metaData /\ metaData'[f] = metaData[f]
    BY <2>1 DEF MapsKept
  <2>2. CASE metaData'[f] = <<>>
    BY <2>2 DEF Range
  <2>3. ASSUME NEW t \in Threads, StoreChunk(t), f = file[t], f \in DOMAIN metaData,
               metaData'[f] = Append(metaData[f], got[t] + 1)
        PROVE  listening[ChunksOf[f][i]] # None
    <3>1. last \in Range(metaData[f]) \/ last = got[t] + 1
      BY <2>3, StoredChunk, RangeAppend
    <3> QED BY <2>3, <3>1, StoredChunk DEF MapsKept
  <2> QED BY <2>1, <2>2, <2>3, MapChanges, FilesAssumption DEF TypeOK
<1> QED BY <1>1, <1>2, KeysStay

LEMMA AscendsStep ==
  ASSUME TypeOK, ThreadsInv, ChunkMapAscends, [Next]_vars
  PROVE  ChunkMapAscends'
<1> SUFFICES ASSUME NEW f \in DOMAIN metaData',
                    NEW i \in DOMAIN metaData'[f], NEW j \in DOMAIN metaData'[f], i < j
             PROVE  metaData'[f][i] < metaData'[f][j]
  BY DEF ChunkMapAscends
<1>1. CASE f \in DOMAIN metaData /\ metaData'[f] = metaData[f]
  BY <1>1 DEF ChunkMapAscends
<1>2. CASE metaData'[f] = <<>>
  BY <1>2
<1>3. CASE metaData'[f] = [n \in DOMAIN ChunksOf[f] |-> n]
  BY <1>3
<1>4. ASSUME NEW t \in Threads, StoreChunk(t), f = file[t], f \in DOMAIN metaData,
             metaData'[f] = Append(metaData[f], got[t] + 1)
      PROVE  metaData'[f][i] < metaData'[f][j]
  <2> DEFINE m == metaData[f]
  <2>1. m \in Seq(1 .. Len(ChunksOf[f])) /\ got[t] + 1 \in 1 .. Len(ChunksOf[f])
    BY <1>4, StoredChunk
  <2>2. \A n \in 1 .. Len(m) : m[n] <= got[t]
    BY <1>4, <2>1, StoredChunk DEF Range
  <2>3. i \in 1 .. Len(m) + 1 /\ j \in 1 .. Len(m) + 1 /\ i \in 1 .. Len(m)
    BY <1>4, <2>1
  <2>4. metaData'[f][i] = m[i] /\ metaData'[f][j] = IF j = Len(m) + 1 THEN got[t] + 1 ELSE m[j]
    BY <1>4, <2>1, <2>3
  <2>5. got[t] \in Nat /\ m[i] \in Nat
    BY <2>1, <2>3 DEF TypeOK, ThreadsTyped
  <2>6. CASE j = Len(m) + 1
    BY <2>2, <2>3, <2>4, <2>5, <2>6
  <2>7. CASE j # Len(m) + 1
    <3>1. j \in DOMAIN m /\ i \in DOMAIN m
      BY <2>1, <2>3, <2>7, SMTT(20)
    <3> QED BY <1>4, <2>4, <2>7, <3>1 DEF ChunkMapAscends
  <2> QED BY <2>6, <2>7
<1> QED BY <1>1, <1>2, <1>3, <1>4, MapChanges DEF TypeOK

\* Who fetches a chunk has the key of the step before.
WasFetching(u) ==
  /\ key[u] \in Chunks /\ (pc[u] \in {"register", "wait", "store"} \/ LookUp(u))
  /\ file'[u] = file[u] /\ key'[u] = key[u] /\ got'[u] = got[u]
  /\ file[u] \in Files /\ Downloading(u)

LEMMA FetchingStep ==
  ASSUME ThreadsTyped, ThreadsInv, NEW u \in Threads, key'[u] \in Chunks, pc'[u] \in {"register", "wait", "store"}, [Next]_vars
  PROVE  WasFetching(u)
<1> USE DEF ThreadsTyped, ThreadsInv, Agree, WasFetching, Downloading, AtKey, Keys, At, Goto, Crash, shared, Labels
<1>1. ASSUME NEW t \in Threads, NEW f \in Files, Start(t, f) PROVE WasFetching(u)
  BY <1>1, FilesAssumption, ThreadsAssumption DEF Start
<1>2. ASSUME NEW t \in Threads, NEW f \in Files, StartFetch(t, f) PROVE WasFetching(u)
  BY <1>2, FilesAssumption, ThreadsAssumption DEF StartFetch
<1>3. ASSUME NEW t \in Threads, NEW f \in Own, ShareFile(t, f) PROVE WasFetching(u)
  BY <1>3, FilesAssumption, ThreadsAssumption DEF ShareFile
<1>4. ASSUME NEW t \in Threads, LookUp(t) PROVE WasFetching(u)
  BY <1>4, FilesAssumption, ThreadsAssumption DEF LookUp
<1>5. ASSUME NEW t \in Threads, Register(t) PROVE WasFetching(u)
  BY <1>5, FilesAssumption, ThreadsAssumption DEF Register
<1>6. ASSUME NEW t \in Threads, StoreMetaFile(t) PROVE WasFetching(u)
  BY <1>6, FilesAssumption, ThreadsAssumption DEF StoreMetaFile
<1>7. ASSUME NEW t \in Threads, StoreChunk(t) PROVE WasFetching(u)
  BY <1>7, FilesAssumption, ThreadsAssumption DEF StoreChunk
<1>8. ASSUME NEW t \in Threads, CountChunk(t) PROVE WasFetching(u)
  BY <1>8, FilesAssumption, ThreadsAssumption DEF CountChunk
<1>9. ASSUME NEW t \in Threads, CloseChannel(t) PROVE WasFetching(u)
  BY <1>9, FilesAssumption, ThreadsAssumption DEF CloseChannel
<1>10. ASSUME NEW t \in Threads, Unregister(t) PROVE WasFetching(u)
  BY <1>10, FilesAssumption, ThreadsAssumption DEF Unregister, AfterKey
<1>11. ASSUME NEW t \in Threads, EndFetch(t) PROVE WasFetching(u)
  BY <1>11, FilesAssumption, ThreadsAssumption DEF EndFetch
<1>12. ASSUME NEW t \in Threads, AddToList(t) PROVE WasFetching(u)
  BY <1>12, FilesAssumption, ThreadsAssumption DEF AddToList
<1>13. ASSUME NEW t \in Threads, RequestChunk(t) PROVE WasFetching(u)
  BY <1>13, FilesAssumption, ThreadsAssumption DEF RequestChunk
<1>14. ASSUME NEW t \in Threads, AbandonChunk(t) PROVE WasFetching(u)
  BY <1>14, FilesAssumption, ThreadsAssumption DEF AbandonChunk
<1>15. ASSUME NEW t \in Threads, WriteFile(t) PROVE WasFetching(u)
  BY <1>15, FilesAssumption, ThreadsAssumption DEF WriteFile
<1>16. ASSUME NEW t \in Threads, RemoveFromList(t) PROVE WasFetching(u)
  BY <1>16, FilesAssumption, ThreadsAssumption DEF RemoveFromList
<1>17. ASSUME NEW t \in Threads, StoreOwnChunks(t) PROVE WasFetching(u)
  BY <1>17, FilesAssumption, ThreadsAssumption DEF StoreOwnChunks
<1>18. ASSUME NEW t \in Threads, HandOver(t) PROVE WasFetching(u)
  BY <1>18, FilesAssumption, ThreadsAssumption DEF HandOver
<1>19. CASE UNCHANGED <<shared, listening, file, key, got, pc>>
  BY <1>19
<1> QED
  BY <1>1, <1>2, <1>3, <1>4, <1>5, <1>6, <1>7, <1>8, <1>9, <1>10, <1>11, <1>12, <1>13, <1>14,
     <1>15, <1>16, <1>17, <1>18, <1>19, Moves DEF Step

LEMMA IsNewStep ==
  ASSUME TypeOK, ThreadsInv, MapsKept, [Next]_vars, NEW u \in Threads
  PROVE  IsNew(u)'
<1> DEFINE Fetching == key[u] \in Chunks /\ pc[u] \in {"register", "wait", "store"}
<1> SUFFICES ASSUME Fetching', file'[u] \in DOMAIN metaData'
             PROVE  \A i \in Range(metaData'[file'[u]]) : i <= got'[u]
  BY DEF IsNew
<1>1. WasFetching(u)
  BY FetchingStep DEF TypeOK
<1> USE DEF WasFetching
<1>2. CASE metaData'[file[u]] = <<>>
  BY <1>1, <1>2 DEF Range
<1>3. CASE file[u] \in DOMAIN metaData /\ metaData'[file[u]] = metaData[file[u]]
  <2>1. CASE Fetching
    BY <1>1, <1>3, <2>1 DEF ThreadsInv, IsNew
  <2>2. CASE LookUp(u)
    <3>1. key[u] = ChunksOf[file[u]][got[u] + 1] /\ u \notin searching
      BY <1>1, <2>2, FilesAssumption DEF LookUp, At, ThreadsInv, Agree, InOrder
    <3>2. listening[key[u]] = None
      BY <2>2, <3>1 DEF LookUp, Goto, TypeOK, ThreadsTyped
    <3>3. ASSUME NEW i \in Range(metaData[file[u]]), ~(i <= got[u]) PROVE FALSE
      <4>1. i \in Nat /\ got[u] \in Nat
        <5>1. metaData[file[u]] \in Seq(1 .. Len(ChunksOf[file[u]]))
          BY <1>3 DEF TypeOK, ListsTyped
        <5> QED BY <5>1, RangeType DEF TypeOK, ThreadsTyped
      <4>2. got[u] + 1 \in 1 .. i
        BY <3>3, <4>1
      <4> QED BY <1>1, <1>3, <3>1, <3>2, <4>2 DEF MapsKept
    <3> QED BY <1>1, <1>3, <3>3
  <2> QED BY <1>1, <2>1, <2>2
<1>4. ASSUME NEW t \in Threads, StoreChunk(t), file[u] = file[t], file[t] \in DOMAIN metaData
      PROVE  FALSE
  <2>1. downloads[file[t]] = t /\ downloads[file[u]] = u
    BY <1>1, <1>4, StoredChunk DEF ThreadsInv, Enlisted
  <2>2. pc'[t] = "count"
    BY <1>4 DEF StoreChunk, Goto, TypeOK, ThreadsTyped
  <2> QED BY <1>4, <2>1, <2>2
<1> QED BY <1>1, <1>2, <1>3, <1>4, MapChanges, FilesAssumption DEF TypeOK

-----------------------------------------------------------------------------
(* What can be served stays so.                                            *)
LEMMA OwnChunkStep ==
  ASSUME ThreadsTyped, NEW g \in Own, NEW i \in DOMAIN ChunksOf[g], NEW u \in Threads, pc[u] = "chunks", file[u] = g, [Next]_vars
  PROVE  (pc[u] = "chunks" /\ file[u] = g)' \/ ChunksOf[g][i] \in disk'
<1> USE DEF ThreadsTyped, At, Goto, Crash, shared
<1>1. ASSUME NEW t \in Threads, NEW f \in Files, Start(t, f)
      PROVE  (pc[u] = "chunks" /\ file[u] = g)' \/ ChunksOf[g][i] \in disk'
  BY <1>1 DEF Start
<1>2. ASSUME NEW t \in Threads, NEW f \in Files, StartFetch(t, f)
      PROVE  (pc[u] = "chunks" /\ file[u] = g)' \/ ChunksOf[g][i] \in disk'
  BY <1>2 DEF StartFetch
<1>3. ASSUME NEW t \in Threads, NEW f \in Own, ShareFile(t, f)
      PROVE  (pc[u] = "chunks" /\ file[u] = g)' \/ ChunksOf[g][i] \in disk'
  BY <1>3 DEF ShareFile
<1>4. ASSUME NEW t \in Threads, LookUp(t)
      PROVE  (pc[u] = "chunks" /\ file[u] = g)' \/ ChunksOf[g][i] \in disk'
  BY <1>4 DEF LookUp
<1>5. ASSUME NEW t \in Threads, Register(t)
      PROVE  (pc[u] = "chunks" /\ file[u] = g)' \/ ChunksOf[g][i] \in disk'
  BY <1>5 DEF Register
<1>6. ASSUME NEW t \in Threads, StoreMetaFile(t)
      PROVE  (pc[u] = "chunks" /\ file[u] = g)' \/ ChunksOf[g][i] \in disk'
  BY <1>6 DEF StoreMetaFile
<1>7. ASSUME NEW t \in Threads, StoreChunk(t)
      PROVE  (pc[u] = "chunks" /\ file[u] = g)' \/ ChunksOf[g][i] \in disk'
  BY <1>7 DEF StoreChunk
<1>8. ASSUME NEW t \in Threads, CountChunk(t)
      PROVE  (pc[u] = "chunks" /\ file[u] = g)' \/ ChunksOf[g][i] \in disk'
  BY <1>8 DEF CountChunk
<1>9. ASSUME NEW t \in Threads, CloseChannel(t)
      PROVE  (pc[u] = "chunks" /\ file[u] = g)' \/ ChunksOf[g][i] \in disk'
  BY <1>9 DEF CloseChannel
<1>10. ASSUME NEW t \in Threads, Unregister(t)
       PROVE  (pc[u] = "chunks" /\ file[u] = g)' \/ ChunksOf[g][i] \in disk'
  BY <1>10 DEF Unregister
<1>11. ASSUME NEW t \in Threads, EndFetch(t)
       PROVE  (pc[u] = "chunks" /\ file[u] = g)' \/ ChunksOf[g][i] \in disk'
  BY <1>11 DEF EndFetch
<1>12. ASSUME NEW t \in Threads, AddToList(t)
       PROVE  (pc[u] = "chunks" /\ file[u] = g)' \/ ChunksOf[g][i] \in disk'
  BY <1>12 DEF AddToList
<1>13. ASSUME NEW t \in Threads, RequestChunk(t)
       PROVE  (pc[u] = "chunks" /\ file[u] = g)' \/ ChunksOf[g][i] \in disk'
  BY <1>13 DEF RequestChunk
<1>14. ASSUME NEW t \in Threads, AbandonChunk(t)
       PROVE  (pc[u] = "chunks" /\ file[u] = g)' \/ ChunksOf[g][i] \in disk'
  BY <1>14 DEF AbandonChunk
<1>15. ASSUME NEW t \in Threads, WriteFile(t)
       PROVE  (pc[u] = "chunks" /\ file[u] = g)' \/ ChunksOf[g][i] \in disk'
  BY <1>15 DEF WriteFile
<1>16. ASSUME NEW t \in Threads, RemoveFromList(t)
       PROVE  (pc[u] = "chunks" /\ file[u] = g)' \/ ChunksOf[g][i] \in disk'
  BY <1>16 DEF RemoveFromList
<1>17. ASSUME NEW t \in Threads, StoreOwnChunks(t)
       PROVE  (pc[u] = "chunks" /\ file[u] = g)' \/ ChunksOf[g][i] \in disk'
  BY <1>17 DEF StoreOwnChunks, Range
<1>18. ASSUME NEW t \in Threads, HandOver(t)
       PROVE  (pc[u] = "chunks" /\ file[u] = g)' \/ ChunksOf[g][i] \in disk'
  BY <1>18 DEF HandOver
<1>19. CASE UNCHANGED <<shared, listening, file, key, got, pc>>
  BY <1>19
<1> QED
  BY <1>1, <1>2, <1>3, <1>4, <1>5, <1>6, <1>7, <1>8, <1>9, <1>10, <1>11, <1>12, <1>13, <1>14,
     <1>15, <1>16, <1>17, <1>18, <1>19, Moves DEF Step

\* The download listed for f has chunk i, or is adding it.
HasChunk(f, i) ==
  LET t == downloads[f] IN i <= got[t] \/ (pc[t] = "count" /\ i = got[t] + 1)

LEMMA ListedChunkStep ==
  ASSUME TypeOK, ThreadsInv, NEW g \in Files, NEW i \in DOMAIN ChunksOf[g], downloads[g] \in Threads, HasChunk(g, i), [Next]_vars
  PROVE  (downloads[g] \in Threads /\ HasChunk(g, i))' \/ ChunksOf[g][i] \in disk'
<1> USE DEF HasChunk, ThreadsTyped, At, Goto, Crash, shared
<1>1. ASSUME NEW t \in Threads, NEW f \in Files, Start(t, f)
      PROVE  (downloads[g] \in Threads /\ HasChunk(g, i))' \/ ChunksOf[g][i] \in disk'
  BY <1>1 DEF Start, TypeOK
<1>2. ASSUME NEW t \in Threads, NEW f \in Files, StartFetch(t, f)
      PROVE  (downloads[g] \in Threads /\ HasChunk(g, i))' \/ ChunksOf[g][i] \in disk'
  BY <1>2 DEF StartFetch, TypeOK
<1>3. ASSUME NEW t \in Threads, NEW f \in Own, ShareFile(t, f)
      PROVE  (downloads[g] \in Threads /\ HasChunk(g, i))' \/ ChunksOf[g][i] \in disk'
  BY <1>3 DEF ShareFile, TypeOK
<1>4. ASSUME NEW t \in Threads, LookUp(t)
      PROVE  (downloads[g] \in Threads /\ HasChunk(g, i))' \/ ChunksOf[g][i] \in disk'
  BY <1>4 DEF LookUp, TypeOK
<1>5. ASSUME NEW t \in Threads, Register(t)
      PROVE  (downloads[g] \in Threads /\ HasChunk(g, i))' \/ ChunksOf[g][i] \in disk'
  BY <1>5 DEF Register, TypeOK
<1>6. ASSUME NEW t \in Threads, StoreMetaFile(t)
      PROVE  (downloads[g] \in Threads /\ HasChunk(g, i))' \/ ChunksOf[g][i] \in disk'
  BY <1>6 DEF StoreMetaFile, TypeOK
<1>7. ASSUME NEW t \in Threads, StoreChunk(t)
      PROVE  (downloads[g] \in Threads /\ HasChunk(g, i))' \/ ChunksOf[g][i] \in disk'
  BY <1>7 DEF StoreChunk, TypeOK
<1>8. ASSUME NEW t \in Threads, CountChunk(t)
      PROVE  (downloads[g] \in Threads /\ HasChunk(g, i))' \/ ChunksOf[g][i] \in disk'
  <2>1. pc[t] = "count" /\ UNCHANGED downloads /\ got \in [Threads -> Nat]
    BY <1>8 DEF CountChunk, TypeOK
  <2>2. got'[t] = got[t] + 1 \/ UNCHANGED <<got, pc>>
    BY <1>8, <2>1 DEF CountChunk
  <2>3. \A u \in Threads \ {t} : got'[u] = got[u] /\ pc'[u] = pc[u]
    BY <1>8 DEF CountChunk, TypeOK
  <2>4. CASE downloads[g] = t
    <3>1. i \in Nat /\ got[t] \in Nat
      BY <2>1, LengthType
    <3> QED BY <2>1, <2>2, <2>4, <3>1
  <2>5. CASE downloads[g] # t
    BY <2>1, <2>3, <2>5
  <2> QED BY <2>4, <2>5
<1>9. ASSUME NEW t \in Threads, CloseChannel(t)
      PROVE  (downloads[g] \in Threads /\ HasChunk(g, i))' \/ ChunksOf[g][i] \in disk'
  BY <1>9 DEF CloseChannel, TypeOK
<1>10. ASSUME NEW t \in Threads, Unregister(t)
       PROVE  (downloads[g] \in Threads /\ HasChunk(g, i))' \/ ChunksOf[g][i] \in disk'
  BY <1>10 DEF Unregister, TypeOK
<1>11. ASSUME NEW t \in Threads, EndFetch(t)
       PROVE  (downloads[g] \in Threads /\ HasChunk(g, i))' \/ ChunksOf[g][i] \in disk'
  BY <1>11 DEF EndFetch, TypeOK
<1>12. ASSUME NEW t \in Threads, AddToList(t)
       PROVE  (downloads[g] \in Threads /\ HasChunk(g, i))' \/ ChunksOf[g][i] \in disk'
  <2>1. file[t] \in Files
    BY <1>12 DEF AddToList, ThreadsInv, Agree
  <2>2. downloads'[g] = downloads[g]
    BY <1>12, <2>1 DEF AddToList, TypeOK, ListsTyped
  <2>3. pc[t] = "add" /\ got' = got /\ \A u \in Threads \ {t} : pc'[u] = pc[u]
    BY <1>12 DEF AddToList, TypeOK
  <2> QED BY <2>2, <2>3
<1>13. ASSUME NEW t \in Threads, RequestChunk(t)
       PROVE  (downloads[g] \in Threads /\ HasChunk(g, i))' \/ ChunksOf[g][i] \in disk'
  BY <1>13 DEF RequestChunk, TypeOK
<1>14. ASSUME NEW t \in Threads, AbandonChunk(t)
       PROVE  (downloads[g] \in Threads /\ HasChunk(g, i))' \/ ChunksOf[g][i] \in disk'
  BY <1>14 DEF AbandonChunk, TypeOK
<1>15. ASSUME NEW t \in Threads, WriteFile(t)
       PROVE  (downloads[g] \in Threads /\ HasChunk(g, i))' \/ ChunksOf[g][i] \in disk'
  BY <1>15 DEF WriteFile, TypeOK
<1>16. ASSUME NEW t \in Threads, RemoveFromList(t)
       PROVE  (downloads[g] \in Threads /\ HasChunk(g, i))' \/ ChunksOf[g][i] \in disk'
  BY <1>16 DEF RemoveFromList, TypeOK, ListsTyped, ThreadsInv, Downloading, Enlisted, InOrder, Range
<1>17. ASSUME NEW t \in Threads, StoreOwnChunks(t)
       PROVE  (downloads[g] \in Threads /\ HasChunk(g, i))' \/ ChunksOf[g][i] \in disk'
  BY <1>17 DEF StoreOwnChunks, TypeOK
<1>18. ASSUME NEW t \in Threads, HandOver(t)
       PROVE  (downloads[g] \in Threads /\ HasChunk(g, i))' \/ ChunksOf[g][i] \in disk'
  BY <1>18 DEF HandOver, TypeOK
<1>19. CASE UNCHANGED <<shared, listening, file, key, got, pc>>
  BY <1>19
<1> QED
  BY <1>1, <1>2, <1>3, <1>4, <1>5, <1>6, <1>7, <1>8, <1>9, <1>10, <1>11, <1>12, <1>13, <1>14,
     <1>15, <1>16, <1>17, <1>18, <1>19, Moves DEF Step

LEMMA ServableStep ==
  ASSUME TypeOK, ThreadsInv, [Next]_vars,
         NEW f \in Files \cup Own, NEW i \in DOMAIN ChunksOf[f], Servable(f, i)
  PROVE  Servable(f, i)'
<1>1. CASE ChunksOf[f][i] \in disk
  <2>1. ChunksOf[f][i] \in disk'
    BY <1>1, Changes DEF WriteFile, StoreOwnChunks
  <2> QED BY <2>1 DEF Servable
<1>2. ASSUME f \in Own, NEW t \in Threads, pc[t] = "chunks", file[t] = f
      PROVE  Servable(f, i)'
  BY <1>2, OwnChunkStep DEF Servable, TypeOK
<1>3. CASE f \in Files /\ downloads[f] \in Threads /\ HasChunk(f, i)
  BY <1>3, ListedChunkStep DEF Servable, HasChunk
<1> QED BY <1>1, <1>2, <1>3 DEF Servable, HasChunk

LEMMA AdvertisedStep ==
  ASSUME TypeOK, ThreadsInv, AdvertisedIsServable, [Next]_vars
  PROVE  AdvertisedIsServable'
<1> SUFFICES ASSUME NEW f \in DOMAIN metaData', NEW i \in Range(metaData'[f])
             PROVE  Servable(f, i)'
  BY DEF AdvertisedIsServable, Servable
<1>1. f \in Files \cup Own /\ i \in DOMAIN ChunksOf[f]
  <2>1. f \in Files \cup Own /\ i \in 1 .. Len(ChunksOf[f])
    BY MapsTypedStep DEF Range
  <2> QED BY <2>1, LengthType
<1>2. CASE f \in DOMAIN metaData /\ metaData'[f] = metaData[f]
  BY <1>1, <1>2, ServableStep DEF AdvertisedIsServable
<1>3. CASE metaData'[f] = <<>>
  BY <1>3 DEF Range
<1>4. CASE f \in Own /\ \E t \in Threads : pc'[t] = "chunks" /\ file'[t] = f
  BY <1>4 DEF Servable
<1>5. ASSUME NEW t \in Threads, StoreChunk(t), f = file[t], f \in DOMAIN metaData,
             metaData'[f] = Append(metaData[f], got[t] + 1)
      PROVE  Servable(f, i)'
  <2>1. CASE i \in Range(metaData[f])
    BY <1>1, <1>5, <2>1, ServableStep DEF AdvertisedIsServable
  <2>2. CASE i = got[t] + 1
    <3>1. f \in Files /\ downloads'[f] = t /\ got'[t] = got[t] /\ pc'[t] = "count"
      BY <1>5, StoredChunk DEF StoreChunk, Goto, TypeOK, ThreadsTyped
    <3> QED BY <2>2, <3>1 DEF Servable
  <2> QED BY <1>5, <2>1, <2>2, StoredChunk, RangeAppend, SMTT(20)
<1> QED BY <1>2, <1>3, <1>4, <1>5, MapChanges DEF TypeOK

-----------------------------------------------------------------------------
(* The remaining types.                                                    *)
LEMMA ListChanges ==
  ASSUME [Next]_vars
  PROVE  /\ searched' = searched \/ \E t \in Threads : t \in searching /\ searched' = searched \cup {key[t]}
         /\ \A t \in searching' : t \in searching \cup Threads
         /\ listMutex' \in {listMutex, "leaked"}
BY DEF Next, Step, vars, shared, Crash,
       Start, StartFetch, ShareFile, LookUp, Register, StoreMetaFile, StoreChunk, CountChunk,
       CloseChannel, Unregister, EndFetch, AddToList, RequestChunk, AbandonChunk, WriteFile,
       RemoveFromList, StoreOwnChunks, Resend, HandOver, ReceiveReply, ReceiveRequest, ReceiveSearch

LEMMA NetworkChanges ==
  ASSUME TypeOK, ThreadsInv, [Next]_vars
  PROVE  /\ \/ UNCHANGED replies
            \/ \E k \in Keys : Ask(k) \/ ReceiveReply(k)
         /\ \/ listener' \in {listener, Idle, Stuck}
            \/ \E k \in Keys : ReceiveReply(k)
         /\ crashed' \in {crashed, TRUE}
<1>1. \A t \in Threads : pc[t] = "wait" => key[t] \in Keys
  BY DEF ThreadsInv, Agree, AtKey
<1>2. \A t \in Threads : RequestChunk(t) => ChunksOf[file[t]][got[t] + 1] \in Keys
  BY LengthType DEF TypeOK, ThreadsTyped, RequestChunk, At, ThreadsInv, Agree, InOrder, Keys
<1>3. UNCHANGED replies \/ \E k \in Keys : Ask(k) \/ ReceiveReply(k)
  BY <1>1, <1>2 DEF Keys, At, Next, Step, vars, shared, Crash,
         Start, StartFetch, ShareFile, LookUp, Register, StoreMetaFile, StoreChunk, CountChunk,
         CloseChannel, Unregister, EndFetch, AddToList, RequestChunk, AbandonChunk, WriteFile,
         RemoveFromList, StoreOwnChunks, Resend, HandOver, ReceiveRequest, ReceiveSearch
<1>4. listener' \in {listener, Idle, Stuck} \/ \E k \in Keys : ReceiveReply(k)
  BY DEF Next, Step, vars, shared, Crash,
         Start, StartFetch, ShareFile, LookUp, Register, StoreMetaFile, StoreChunk, CountChunk,
         CloseChannel, Unregister, EndFetch, AddToList, RequestChunk, AbandonChunk, WriteFile,
         RemoveFromList, StoreOwnChunks, Resend, HandOver, ReceiveRequest, ReceiveSearch
<1>5. crashed' \in {crashed, TRUE}
  BY DEF Next, Step, vars, shared, Crash,
         Start, StartFetch, ShareFile, LookUp, Register, StoreMetaFile, StoreChunk, CountChunk,
         CloseChannel, Unregister, EndFetch, AddToList, RequestChunk, AbandonChunk, WriteFile,
         RemoveFromList, StoreOwnChunks, Resend, HandOver, ReceiveReply, ReceiveRequest, ReceiveSearch
<1> QED BY <1>3, <1>4, <1>5

LEMMA ListsTypedStep ==
  ASSUME TypeOK, ThreadsInv, [Next]_vars
  PROVE  ListsTyped'
<1> USE DEF TypeOK, ListsTyped
<1>1. listening' \in [Keys -> Threads \cup {None, Nil}]
  BY Changes DEF Register, Unregister, EndFetch
<1>2. downloads' \in [Files -> Threads \cup {None, Nil}]
  BY Changes DEF AddToList, RemoveFromList
<1>3. disk' \subseteq Chunks
  <2>1. \A t \in Threads : file[t] \in Files \cup Own => Range(ChunksOf[file[t]]) \subseteq Chunks
    BY LengthType DEF Range
  <2>2. \A t \in Threads : pc[t] \in {"write", "chunks"} => file[t] \in Files \cup Own
    BY DEF ThreadsInv, Agree
  <2> QED BY <2>1, <2>2, Changes DEF WriteFile, StoreOwnChunks, At
<1>4. searched' \subseteq Files /\ searching' \subseteq Threads /\ listMutex' \in {"free", "leaked"}
  BY ListChanges DEF ThreadsInv, Agree
<1> QED BY <1>1, <1>2, <1>3, <1>4, MapsTypedStep

LEMMA NetworkTypedStep ==
  ASSUME TypeOK, ThreadsInv, [Next]_vars
  PROVE  /\ replies' \in [Keys -> 0 .. MaxReplies]
         /\ listener' \in {Idle, Stuck} \cup Sending
         /\ crashed' \in BOOLEAN
<1>1. replies' \in [Keys -> 0 .. MaxReplies]
  <2>1. CASE UNCHANGED replies
    BY <2>1 DEF TypeOK
  <2>2. ASSUME NEW k \in Keys, Ask(k) PROVE replies' \in [Keys -> 0 .. MaxReplies]
    BY <2>2, AskType DEF TypeOK
  <2>3. ASSUME NEW k \in Keys, ReceiveReply(k) PROVE replies' \in [Keys -> 0 .. MaxReplies]
    BY <2>3, BoundAssumption DEF ReceiveReply, TypeOK
  <2> QED BY <2>1, <2>2, <2>3, NetworkChanges
<1>2. listener' \in {Idle, Stuck} \cup Sending
  <2>1. ASSUME NEW k \in Keys, ReceiveReply(k) PROVE listener' \in {Idle, Stuck} \cup Sending
    BY <2>1 DEF ReceiveReply, Sending, TypeOK
  <2> QED BY <2>1, NetworkChanges DEF TypeOK
<1> QED BY <1>1, <1>2, NetworkChanges DEF TypeOK

-----------------------------------------------------------------------------
(* The theorems.                                                           *)
LEMMA InvInit == Init => DownloadInv
<1> SUFFICES ASSUME Init PROVE DownloadInv
  OBVIOUS
<1> USE DEF Init
<1>1. TypeOK
  <2>1. ThreadsTyped
    BY DEF ThreadsTyped, Labels
  <2>2. ListsTyped
    BY FilesAssumption DEF ListsTyped
  <2>3. replies \in [Keys -> 0 .. MaxReplies]
    BY BoundAssumption
  <2> QED BY <2>1, <2>2, <2>3 DEF TypeOK
<1>2. ThreadsInv
  <2> SUFFICES ASSUME NEW t \in Threads
               PROVE  Agree(t) /\ Enlisted(t) /\ InOrder(t) /\ Kept(t) /\ Fetched(t) /\ IsNew(t)
    BY DEF ThreadsInv
  <2>1. pc[t] = "idle" /\ file[t] = None /\ key[t] = None /\ got[t] = 0 /\ t \notin searching
    OBVIOUS
  <2>2. key[t] \notin Keys /\ Keys = Files \cup Chunks
    BY <2>1, ThreadsAssumption DEF Keys
  <2> QED BY <2>1, <2>2 DEF Agree, Enlisted, Downloading, InOrder, Kept, Fetched, IsNew, AtKey
<1>3. MapsKept /\ ChunkMapAscends /\ AdvertisedIsServable
  BY DEF MapsKept, ChunkMapAscends, AdvertisedIsServable
<1> QED BY <1>1, <1>2, <1>3 DEF DownloadInv

LEMMA InvStep == DownloadInv /\ [Next]_vars => DownloadInv'
<1> SUFFICES ASSUME DownloadInv, [Next]_vars PROVE DownloadInv'
  OBVIOUS
<1> USE DEF DownloadInv
<1>1. TypeOK'
  BY ThreadsTypedStep, ListsTypedStep, NetworkTypedStep DEF TypeOK
<1>2. ThreadsInv'
  <2> SUFFICES ASSUME NEW u \in Threads
               PROVE  Agree(u)' /\ Enlisted(u)' /\ InOrder(u)' /\ Kept(u)' /\ Fetched(u)' /\ IsNew(u)'
    BY DEF ThreadsInv
  <2> QED BY AgreeStep, EnlistedStep, InOrderStep, KeptStep, FetchedStep, IsNewStep DEF TypeOK
<1> QED BY <1>1, <1>2, MapsKeptStep, AscendsStep, AdvertisedStep

LEMMA Invariant == Spec => []DownloadInv
BY InvInit, InvStep, PTL DEF Spec

(* Every variable of FileDownload keeps its type, for any threads, files   *)
(* and chunks.                                                             *)
THEOREM TypeCorrect == Spec => []TypeOK
<1>1. DownloadInv => TypeOK
  BY DEF DownloadInv
<1> QED BY <1>1, Invariant, PTL

(* However many threads are told to download a file, one at a time fetches *)
(* its chunks: who does is the one that fileDownloadsList has for it.      *)
THEOREM OneDownload == Spec => []OneDownloadPerFile
<1>1. DownloadInv => OneDownloadPerFile
  BY DEF DownloadInv, ThreadsInv, Enlisted, OneDownloadPerFile
<1> QED BY <1>1, Invariant, PTL

(* ChunkMap is sorted and never lists a chunk twice, so that its length    *)
(* tells whether a file is complete: the keys of chunks stay in            *)
(* filesListening, with the value nil, and a chunk that was fetched once   *)
(* is not fetched again.                                                   *)
THEOREM InOrderOnce == Spec => []ChunkMapAscends
<1>1. DownloadInv => ChunkMapAscends
  BY DEF DownloadInv
<1> QED BY <1>1, Invariant, PTL

(* What ChunkMap advertises is on the disk, with the download that is      *)
(* listed, or about to be written by the thread that shares the file.      *)
THEOREM AdvertisedServed == Spec => []AdvertisedIsServable
<1>1. DownloadInv => AdvertisedIsServable
  BY DEF DownloadInv
<1> QED BY <1>1, Invariant, PTL

=============================================================================
