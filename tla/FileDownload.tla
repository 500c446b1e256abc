---------------------------- MODULE FileDownload ----------------------------
(***************************************************************************)
(* The file downloads of one peerster (gossiper/process-file-message.go,   *)
(* file-downloads.go, metafiles.go): the threads that run                  *)
(* StartFileDownload, share a file (gossip.go) or fetch the metafile of a  *)
(* search result (search-file.go), for the client or for the GUI, and the  *)
(* listener that hands them the replies of other peers and answers         *)
(* requests itself.                                                        *)
(*                                                                         *)
(* A file stands for the hash of its metafile, a chunk for its hash.  A    *)
(* thread stands for its FileDownload and, with the key it asks for, for   *)
(* the channel it waits on.  Sections that hold a mutex are single steps,  *)
(* so a mutex is kept only where it stays held between steps: filesMutex   *)
(* while the listener is sending, and the mutex of fileDownloadsList.  A   *)
(* panic of any thread ends the program.                                   *)
(***************************************************************************)
EXTENDS Naturals, Sequences, FiniteSets, SequencesExt

CONSTANTS
  Threads,     \* bound: the runs of StartFileDownload there ever are
  Files,       \* files of other peers
  Own,         \* files the user shares, and does not download
  Chunks,      \* chunks
  ChunksOf,    \* ChunksOf[f]: the chunk hashes in the metafile of f
  Searched,    \* files of which searchList has the metafile at the start
  MaxReplies,  \* bound: replies on their way for one key
  None,        \* a missing key
  Nil          \* a key whose value is nil

Keys == Files \cup Chunks

ASSUME FilesAssumption ==
  /\ Files \cap Chunks = {} /\ Files \cap Own = {} /\ Searched \subseteq Files
  /\ ChunksOf \in [Files \cup Own -> Seq(Chunks)]
ASSUME ThreadsAssumption ==
  /\ None \notin Threads \cup Keys \cup Own /\ Nil \notin Threads /\ None # Nil
ASSUME BoundAssumption == MaxReplies \in Nat

VARIABLES
  metaData,    \* metaData[f]: the ChunkMap of f, for f in metaDataList
  listening,   \* listening[k]: whose channel filesListening has for k
  searched,    \* files in searchList
  searching,   \* threads that fetch a metafile for a search
  downloads,   \* downloads[f]: what fileDownloadsList has for f
  listMutex,   \* the mutex of fileDownloadsList
  disk,        \* chunks stored in the chunks folder
  replies,     \* replies[k]: how many replies with key k are on their way
  listener,    \* what the listener is doing
  file,        \* file[t]: the file t downloads
  key,         \* key[t]: the hash t asks for
  got,         \* got[t]: len(fileDownload.Chunks) of t
  pc,          \* pc[t]: what t does next
  crashed      \* a thread panicked

shared == <<metaData, searched, searching, downloads, listMutex, disk>>
vars == <<shared, listening, replies, listener, file, key, got, pc, crashed>>

Labels == {"idle", "look", "register", "wait", "store", "count", "close",
           "unregister", "add", "request", "write", "remove", "over", "chunks"}

Sending == [doing: {"sending"}, to: Threads, key: Keys, valid: BOOLEAN]

Idle == [doing |-> "idle"]

\* Locking the mutex of fileDownloadsList, for ever.
Stuck == [doing |-> "stuck"]

SendingTo(t) == listener.doing = "sending" /\ listener.to = t

ThreadsTyped ==
  /\ file \in [Threads -> Files \cup Own \cup {None}]
  /\ key \in [Threads -> Keys \cup {None}]
  /\ got \in [Threads -> Nat]
  /\ pc \in [Threads -> Labels]
  /\ \A t \in Threads : got[t] <= (IF file[t] = None THEN 0 ELSE Len(ChunksOf[file[t]]))

ListsTyped ==
  /\ DOMAIN metaData \subseteq Files \cup Own
  /\ \A f \in DOMAIN metaData : metaData[f] \in Seq(1 .. Len(ChunksOf[f]))
  /\ listening \in [Keys -> Threads \cup {None, Nil}]
  /\ searched \subseteq Files
  /\ searching \subseteq Threads
  /\ downloads \in [Files -> Threads \cup {None, Nil}]
  /\ listMutex \in {"free", "leaked"}
  /\ disk \subseteq Chunks

TypeOK ==
  /\ ThreadsTyped
  /\ ListsTyped
  /\ replies \in [Keys -> 0 .. MaxReplies]
  /\ listener \in {Idle, Stuck} \cup Sending
  /\ crashed \in BOOLEAN

Init ==
  /\ metaData = <<>>
  /\ searched = Searched
  /\ searching = {}
  /\ listening = [k \in Keys |-> None]
  /\ downloads = [f \in Files |-> None]
  /\ listMutex = "free"
  /\ disk = {}
  /\ replies = [k \in Keys |-> 0]
  /\ listener = Idle
  /\ file = [t \in Threads |-> None]
  /\ key = [t \in Threads |-> None]
  /\ got = [t \in Threads |-> 0]
  /\ pc = [t \in Threads |-> "idle"]
  /\ crashed = FALSE

-----------------------------------------------------------------------------
Goto(t, label) == pc' = [pc EXCEPT ![t] = label]

At(t, label) == ~crashed /\ pc[t] = label

FilesMutexFree == listener.doing # "sending"

ListMutexFree == listMutex = "free"

\* A request for k goes out; it or its reply may be lost.
Ask(k) == replies' \in {replies, [replies EXCEPT ![k] = @ + 1]} /\ replies'[k] <= MaxReplies

Crash == crashed' = TRUE /\ UNCHANGED <<shared, listening, file, key, got, pc>>

-----------------------------------------------------------------------------
(* StartFileDownload.                                                      *)

\* With the metafile in either list the chunks are next, else it is asked for.
Start(t, f) ==
  /\ At(t, "idle")
  /\ file' = [file EXCEPT ![t] = f]
  /\ IF f \in DOMAIN metaData \cup searched
     THEN Goto(t, "add") /\ UNCHANGED <<key, replies>>
     ELSE Goto(t, "look") /\ key' = [key EXCEPT ![t] = f] /\ Ask(f)
  /\ UNCHANGED <<shared, listening, listener, got, crashed>>

\* A search has found f and asks for its metafile.
StartFetch(t, f) ==
  /\ At(t, "idle")
  /\ file' = [file EXCEPT ![t] = f]
  /\ key' = [key EXCEPT ![t] = f]
  /\ searching' = searching \cup {t}
  /\ Ask(f)
  /\ Goto(t, "look")
  /\ UNCHANGED <<metaData, searched, downloads, listMutex, disk, listening, listener, got, crashed>>

\* The first section of filesMutex: "Another goroutine is already waiting".
\* A search knows nobody waits if the key is nil, and ends otherwise.
LookUp(t) ==
  /\ At(t, "look") /\ FilesMutexFree
  /\ LET free == {None} \cup (IF t \in searching THEN {Nil} ELSE {})
     IN  Goto(t, IF listening[key[t]] \in free THEN "register" ELSE "over")
  /\ searching' = IF pc'[t] = "over" THEN searching \ {t} ELSE searching
  /\ UNCHANGED <<metaData, searched, downloads, listMutex, disk>>
  /\ UNCHANGED <<listening, replies, listener, file, key, got, crashed>>

Register(t) ==
  /\ At(t, "register") /\ FilesMutexFree
  /\ listening' = [listening EXCEPT ![key[t]] = t]
  /\ Goto(t, "wait")
  /\ UNCHANGED <<shared, replies, listener, file, key, got, crashed>>

\* The timer of 5 s: the request is sent again.
Resend(t) ==
  /\ At(t, "wait")
  /\ Ask(key[t])
  /\ UNCHANGED <<shared, listening, listener, file, key, got, pc, crashed>>

\* MetaDataList.Add: a file is listed once.
Listed(f, map) ==
  [g \in DOMAIN metaData \cup {f} |-> IF g \in DOMAIN metaData THEN metaData[g] ELSE map]

\* A valid metafile; a search keeps it with its results.
StoreMetaFile(t) ==
  /\ At(t, "store") /\ key[t] \in Files
  /\ metaData' = IF t \in searching THEN metaData ELSE Listed(key[t], <<>>)
  /\ Goto(t, "close")
  /\ UNCHANGED <<searched, searching, downloads, listMutex, disk, listening, replies, listener, file, key, got, crashed>>

\* Mutant: the index instead of the number of the chunk.
ChunkNumber_Index(t) == got[t]

ChunkNumber(t) == got[t] + 1

\* A valid chunk: AddChunkNumberToMap, for a file that metaDataList has.
StoreChunk(t) ==
  /\ At(t, "store") /\ key[t] \in Chunks
  /\ metaData' = [f \in DOMAIN metaData |->
                    IF f = file[t] THEN Append(metaData[f], ChunkNumber(t)) ELSE metaData[f]]
  /\ Goto(t, "count")
  /\ UNCHANGED <<searched, searching, downloads, listMutex, disk, listening, replies, listener, file, key, got, crashed>>

\* AddChunkNumberToMetaData walks over the list in any order, and panics at
\* an entry that is nil; then the chunk joins those of the FileDownload.
CountChunk(t) ==
  /\ At(t, "count") /\ ListMutexFree
  /\ \/ /\ got' = [got EXCEPT ![t] = @ + 1]
        /\ Goto(t, "close")
        /\ UNCHANGED <<shared, listening, file, key, crashed>>
     \/ Nil \in Range(downloads) /\ Crash
  /\ UNCHANGED <<replies, listener>>

\* Mutant: the channel is left open.
CloseChannel_Skipped(t) ==
  /\ At(t, "close")
  /\ Goto(t, "unregister")
  /\ UNCHANGED <<shared, listening, replies, listener, file, key, got, crashed>>

\* Closing a channel that the listener is sending on makes it panic.
CloseChannel(t) ==
  /\ At(t, "close")
  /\ IF SendingTo(t)
     THEN Crash
     ELSE Goto(t, "unregister") /\ UNCHANGED <<shared, listening, file, key, got, crashed>>
  /\ UNCHANGED <<replies, listener>>

\* After the metafile the download is listed; after the last chunk it is done.
AfterKey(t) ==
  IF key[t] \in Files THEN "add"
  ELSE IF got[t] < Len(ChunksOf[file[t]]) THEN "request" ELSE "write"

\* Mutant: the key is deleted.
Unregister_Deletes(t) ==
  /\ At(t, "unregister") /\ t \notin searching /\ FilesMutexFree
  /\ listening' = [listening EXCEPT ![key[t]] = None]
  /\ Goto(t, AfterKey(t))
  /\ UNCHANGED <<shared, replies, listener, file, key, got, crashed>>

\* The key stays, with the value nil.
Unregister(t) ==
  /\ At(t, "unregister") /\ t \notin searching /\ FilesMutexFree
  /\ listening' = [listening EXCEPT ![key[t]] = Nil]
  /\ Goto(t, AfterKey(t))
  /\ UNCHANGED <<shared, replies, listener, file, key, got, crashed>>

\* A search deletes the key, stores its result and may download the file.
EndFetch(t) ==
  /\ At(t, "unregister") /\ t \in searching /\ FilesMutexFree
  /\ listening' = [listening EXCEPT ![key[t]] = None]
  /\ searching' = searching \ {t}
  /\ searched' = searched \cup {key[t]}
  /\ Goto(t, "add") \/ Goto(t, "over")
  /\ UNCHANGED <<metaData, downloads, listMutex, disk, replies, listener, file, key, got, crashed>>

\* Mutant: whatever is listed is replaced.
AddToList_Unchecked(t) ==
  /\ At(t, "add") /\ ListMutexFree
  /\ downloads' = [downloads EXCEPT ![file[t]] = t]
  /\ Goto(t, IF ChunksOf[file[t]] = <<>> THEN "write" ELSE "request")
  /\ UNCHANGED <<metaData, searched, searching, listMutex, disk, listening, replies, listener, file, key, got, crashed>>

\* fileDownloadsList.Add: a file that is listed is refused, mutex and all.
AddToList(t) ==
  /\ At(t, "add") /\ ListMutexFree
  /\ IF downloads[file[t]] \in Threads
     THEN listMutex' = "leaked" /\ Goto(t, "over") /\ UNCHANGED downloads
     ELSE /\ downloads' = [downloads EXCEPT ![file[t]] = t]
          /\ Goto(t, IF ChunksOf[file[t]] = <<>> THEN "write" ELSE "request")
          /\ UNCHANGED listMutex
  /\ UNCHANGED <<metaData, searched, searching, disk, listening, replies, listener, file, key, got, crashed>>

RequestChunk(t) ==
  LET k == ChunksOf[file[t]][got[t] + 1]
  IN  /\ At(t, "request")
      /\ key' = [key EXCEPT ![t] = k]
      /\ Ask(k)
      /\ Goto(t, "look")
      /\ UNCHANGED <<shared, listening, listener, file, got, crashed>>

\* No route to the origin of the next chunk, or no hops left.
AbandonChunk(t) ==
  /\ At(t, "request")
  /\ Goto(t, "over")
  /\ UNCHANGED <<shared, listening, replies, listener, file, key, got, crashed>>

\* Mutant: the chunks are not stored.
WriteFile_NoChunks(t) ==
  /\ At(t, "write")
  /\ Goto(t, "remove")
  /\ UNCHANGED <<shared, listening, replies, listener, file, key, got, crashed>>

\* The file and its chunks are written.
WriteFile(t) ==
  /\ At(t, "write")
  /\ disk' = disk \cup Range(ChunksOf[file[t]])
  /\ Goto(t, "remove")
  /\ UNCHANGED <<metaData, searched, searching, downloads, listMutex, listening, replies, listener, file, key, got, crashed>>

\* fileDownloadsList.Remove: the key stays, with the value nil.
RemoveFromList(t) ==
  /\ At(t, "remove") /\ ListMutexFree
  /\ downloads' = [downloads EXCEPT ![file[t]] = Nil]
  /\ Goto(t, "over")
  /\ UNCHANGED <<metaData, searched, searching, listMutex, disk, listening, replies, listener, file, key, got, crashed>>

-----------------------------------------------------------------------------
(* Sharing a file (handleClientMessage).                                   *)

\* The file is listed with all of its chunks before they are stored.
ShareFile(t, f) ==
  /\ At(t, "idle")
  /\ file' = [file EXCEPT ![t] = f]
  /\ metaData' = Listed(f, [i \in DOMAIN ChunksOf[f] |-> i])
  /\ Goto(t, "chunks")
  /\ UNCHANGED <<searched, searching, downloads, listMutex, disk, listening, replies, listener, key, got, crashed>>

\* The file and its chunks are written.
StoreOwnChunks(t) ==
  /\ At(t, "chunks")
  /\ disk' = disk \cup Range(ChunksOf[file[t]])
  /\ Goto(t, "over")
  /\ UNCHANGED <<metaData, searched, searching, downloads, listMutex, listening, replies, listener, file, key, got, crashed>>

-----------------------------------------------------------------------------
(* The listener.                                                           *)

\* processDataReply: it holds filesMutex until the send is over; a send on a
\* closed channel panics.
ReceiveReply(k) ==
  LET t == listening[k]
  IN  /\ ~crashed /\ listener = Idle
      /\ replies[k] > 0
      /\ replies' = [replies EXCEPT ![k] = @ - 1]
      /\ \/ /\ t \notin Threads
            /\ UNCHANGED <<listener, crashed>>
         \/ /\ t \in Threads /\ pc[t] # "unregister"
            /\ \E valid \in BOOLEAN : listener' = [doing |-> "sending", to |-> t, key |-> k, valid |-> valid]
            /\ UNCHANGED crashed
         \/ /\ t \in Threads /\ pc[t] = "unregister"
            /\ crashed' = TRUE
            /\ UNCHANGED listener
      /\ UNCHANGED <<shared, listening, file, key, got, pc>>

\* The thread takes the reply; what does not have the hash asked for is ignored.
HandOver(t) ==
  /\ At(t, "wait")
  /\ SendingTo(t)
  /\ listener' = Idle
  /\ Goto(t, IF listener.valid THEN "store" ELSE "wait")
  /\ UNCHANGED <<shared, listening, replies, file, key, got, crashed>>

\* Reading the chunk k of the download listed for f would panic.
Unreadable(f, k) ==
  \/ downloads[f] = Nil
  \/ downloads[f] \in Threads /\ k \in Range(SubSeq(ChunksOf[f], got[downloads[f]] + 1, Len(ChunksOf[f])))
                              /\ k \notin Range(SubSeq(ChunksOf[f], 1, got[downloads[f]]))

\* ProcessDataRequest of a peer that asks this node for k, where it comes to
\* GetChunkByHash; a request that is answered or ignored changes nothing.
ReceiveRequest(k) ==
  /\ ~crashed /\ listener = Idle
  /\ k \notin DOMAIN metaData \cup disk
  /\ \/ ListMutexFree /\ (\E f \in Files : Unreadable(f, k)) /\ Crash /\ UNCHANGED listener
     \/ ~ListMutexFree /\ listener' = Stuck /\ UNCHANGED <<shared, listening, file, key, got, pc, crashed>>
  /\ UNCHANGED replies

\* ProcessSearchRequest looks for files among the downloads, too.
ReceiveSearch ==
  /\ ~crashed /\ listener = Idle
  /\ \/ ListMutexFree /\ Nil \in Range(downloads) /\ Crash /\ UNCHANGED listener
     \/ ~ListMutexFree /\ listener' = Stuck /\ UNCHANGED <<shared, listening, file, key, got, pc, crashed>>
  /\ UNCHANGED replies

-----------------------------------------------------------------------------
Step(t) ==
  \/ LookUp(t) \/ Register(t)
  \/ StoreMetaFile(t) \/ StoreChunk(t) \/ CountChunk(t)
  \/ CloseChannel(t) \/ Unregister(t) \/ EndFetch(t)
  \/ AddToList(t) \/ RequestChunk(t) \/ AbandonChunk(t)
  \/ WriteFile(t) \/ RemoveFromList(t) \/ StoreOwnChunks(t)

Next ==
  \/ \E t \in Threads, f \in Files : Start(t, f) \/ StartFetch(t, f)
  \/ \E t \in Threads, f \in Own : ShareFile(t, f)
  \/ \E t \in Threads : Step(t) \/ Resend(t) \/ HandOver(t)
  \/ \E k \in Keys : ReceiveReply(k) \/ ReceiveRequest(k)
  \/ ReceiveSearch

Spec == Init /\ [][Next]_vars

\* Every thread is scheduled; none is promised a reply.
Fairness == \A t \in Threads : WF_vars(Step(t)) /\ WF_vars(HandOver(t))

FairSpec == Spec /\ Fairness

-----------------------------------------------------------------------------
Downloading(t) ==
  \/ pc[t] \in {"request", "write", "remove"}
  \/ key[t] \in Chunks /\ pc[t] \notin {"idle", "over"}

(* However often a file is asked for, one thread at a time fetches its     *)
(* chunks (FileDownloadsList.Add).                                         *)
OneDownloadPerFile ==
  \A t, u \in Threads : t # u /\ Downloading(t) /\ Downloading(u) => file[t] # file[u]

(* ChunkMap lists chunks in their order, none twice, over all downloads of *)
(* a file: MergeUint64Slices takes it to be sorted, processSearchContent   *)
(* takes a file for complete by its length.                                *)
ChunkMapAscends ==
  \A f \in DOMAIN metaData : \A i, j \in DOMAIN metaData[f] :
    i < j => metaData[f][i] < metaData[f][j]

(* A chunk that ChunkMap advertises in search replies can be served, from  *)
(* the disk or from the download that has it, or is just being added; the  *)
(* chunks of a file that is shared, once they are written.                 *)
Servable(f, i) ==
  \/ ChunksOf[f][i] \in disk
  \/ f \in Own /\ \E t \in Threads : pc[t] = "chunks" /\ file[t] = f
  \/ f \in Files /\ LET t == downloads[f]
                     IN  t \in Threads /\ (i <= got[t] \/ (pc[t] = "count" /\ i = got[t] + 1))

AdvertisedIsServable ==
  \A f \in DOMAIN metaData : \A i \in Range(metaData[f]) : Servable(f, i)

-----------------------------------------------------------------------------
(* The inductive invariant.  What a thread has at hand fits the step it is *)
(* at (Agree), a thread that fetches the chunks of a file is the one that  *)
(* is listed for it (Enlisted) and asks for the chunk after those it got   *)
(* (InOrder).  The key of a chunk that was registered is never free again  *)
(* (Kept, Fetched, MapsKept), so no chunk is fetched that ChunkMap has, or *)
(* that comes before one it has (IsNew).                                   *)
AtKey == {"look", "register", "wait", "store", "count", "close", "unregister"}

Agree(t) ==
  /\ pc[t] = "idle" => file[t] = None /\ key[t] = None /\ got[t] = 0 /\ t \notin searching
  /\ pc[t] = "chunks" => file[t] \in Own /\ key[t] = None
  /\ pc[t] \in AtKey \cup {"add", "request", "write", "remove"} => file[t] \in Files
  /\ pc[t] \in AtKey => key[t] \in Keys
  /\ pc[t] \in AtKey \cup {"add"} /\ key[t] \notin Chunks => got[t] = 0 /\ pc[t] # "count"
  /\ key[t] \in Files => pc[t] \in AtKey \cup {"add", "request", "write", "remove", "over"} /\ file[t] = key[t]
  /\ t \in searching => pc[t] \in AtKey /\ key[t] \in Files
  /\ pc[t] = "add" => key[t] \notin Chunks

Enlisted(t) == Downloading(t) => file[t] \in Files /\ downloads[file[t]] = t

InOrder(t) ==
  /\ pc[t] = "request" => got[t] < Len(ChunksOf[file[t]])
  /\ key[t] \in Chunks /\ pc[t] \in {"look", "register", "wait", "store", "count"} =>
       got[t] < Len(ChunksOf[file[t]]) /\ key[t] = ChunksOf[file[t]][got[t] + 1]
  /\ pc[t] = "remove" => Range(ChunksOf[file[t]]) \subseteq disk

Kept(t) ==
  key[t] \in Chunks /\ pc[t] \in {"wait", "store", "count", "close", "unregister"} =>
    listening[key[t]] # None

Fetched(t) ==
  Downloading(t) => \A i \in 1 .. got[t] : listening[ChunksOf[file[t]][i]] # None

MapsKept ==
  \A f \in DOMAIN metaData \cap Files : \A last \in Range(metaData[f]) : \A i \in 1 .. last :
    listening[ChunksOf[f][i]] # None

IsNew(t) ==
  key[t] \in Chunks /\ pc[t] \in {"register", "wait", "store"} /\ file[t] \in DOMAIN metaData =>
    \A i \in Range(metaData[file[t]]) : i <= got[t]

ThreadsInv ==
  \A t \in Threads : Agree(t) /\ Enlisted(t) /\ InOrder(t) /\ Kept(t) /\ Fetched(t) /\ IsNew(t)

DownloadInv == TypeOK /\ ThreadsInv /\ MapsKept /\ ChunkMapAscends /\ AdvertisedIsServable

-----------------------------------------------------------------------------
(* The listener does not stay blocked with filesMutex held, unless the     *)
(* mutex of fileDownloadsList is lost: the thread it sends to takes the    *)
(* reply, or closes the channel.                                           *)
SendingEnds ==
  listener.doing = "sending" ~> listener = Idle \/ crashed \/ ~ListMutexFree

(* "Another goroutine is already waiting for this data"                    *)
(* (StartFileDownload): a download is given up for another's sake only.    *)
Awaiting(t) == pc[t] \in {"wait", "store", "count", "close", "unregister"}

GivesUpToAnother ==
  [][\A t \in Threads :
       pc[t] = "look" /\ pc'[t] = "over" =>
         \E u \in Threads \ {t} : Awaiting(u) /\ key[u] = key[t]]_vars

=============================================================================
