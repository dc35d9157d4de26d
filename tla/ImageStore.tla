----------------------------- MODULE ImageStore -----------------------------
(***************************************************************************)
(* The content-addressed image store (datalayer/storage.py) on a file      *)
(* system, with the lanes whose ingests write to it                        *)
(* (datalayer/ingestion.py): one temporary name and one blob name per      *)
(* content, and files that a name, or a process that has opened them,      *)
(* keeps alive.  What a file holds is "whole" - one encryption of the      *)
(* content - or "broken".                                                  *)
(***************************************************************************)
EXTENDS Integers, Sequences, Functions

CONSTANTS Lanes,        \* processes that ingest
          Contents,     \* what a frame can hold
          Files,        \* inodes
          None

ASSUME FilesAssumption == None \notin Files

VARIABLES blob,         \* per content: the file under its blob name, or None
          tmp,          \* per content: the file under its temporary name, or None
          file,         \* per file: what it holds
          lane,         \* per lane: its ingest
          acquired,     \* the frame lists ingests have returned
          cut           \* a write was cut short, by a crash or a full disk

store == <<blob, tmp, file, lane, acquired, cut>>

Idle == [step |-> "idle", todo |-> <<>>, frames |-> <<>>, fd |-> None]

StoreInit == /\ blob = [c \in Contents |-> None] /\ tmp = blob
             /\ file = [i \in Files |-> "broken"]
             /\ lane = [p \in Lanes |-> Idle]
             /\ acquired = {} /\ cut = FALSE

At(p, step) == lane[p].step = step

Unused == Files \ (Range(blob) \cup Range(tmp) \cup {lane[p].fd : p \in Lanes})

\* ingest, for frames that pass its validation.
Ingest(p, frames) == /\ At(p, "idle")
                     /\ lane' = [lane EXCEPT ![p] = [step |-> "put", todo |-> frames,
                                                     frames |-> frames, fd |-> None]]
                     /\ UNCHANGED <<blob, tmp, file, acquired, cut>>

\* put returns a reference; after the last one so does ingest.
Return(p) ==
  LET rest == Tail(lane[p].todo)
  IN  IF rest = <<>>
        THEN lane' = [lane EXCEPT ![p] = Idle] /\ acquired' = acquired \cup {lane[p].frames}
        ELSE /\ lane' = [lane EXCEPT ![p] = [@ EXCEPT !.step = "put", !.todo = rest,
                                                      !.fd = None]]
             /\ UNCHANGED acquired

\* put raises, and ingest with it.
Raise(p) == lane' = [lane EXCEPT ![p] = Idle] /\ UNCHANGED acquired

\* path.exists(): what is there already is not written again.
Look(p) == /\ At(p, "put")
           /\ IF blob[Head(lane[p].todo)] # None
                THEN Return(p)
                ELSE /\ lane' = [lane EXCEPT ![p].step = "open"]
                     /\ UNCHANGED acquired
           /\ UNCHANGED <<blob, tmp, file, cut>>

\* write_bytes opens the temporary name: a new file, which takes an inode, or the one
\* there, cut to nothing.
Open(p) == /\ At(p, "open")
           /\ LET c == Head(lane[p].todo)
                  inodes == IF tmp[c] # None THEN {tmp[c]} ELSE Unused
                  i == CHOOSE i \in inodes : TRUE
              IN  /\ inodes # {}
                  /\ tmp' = [tmp EXCEPT ![c] = i]
                  /\ file' = [file EXCEPT ![i] = "broken"]
                  /\ lane' = [lane EXCEPT ![p] = [@ EXCEPT !.step = "write", !.fd = i]]
           /\ UNCHANGED <<blob, acquired, cut>>

\* Mutant: the bytes are appended to what another lane has put there.
WriteAppends(p) ==
  /\ At(p, "write")
  /\ file' = [file EXCEPT ![lane[p].fd] = IF @ = "whole" THEN "broken" ELSE "whole"]
  /\ lane' = [lane EXCEPT ![p].step = "publish"]
  /\ UNCHANGED <<blob, tmp, acquired, cut>>

\* ... and writes from the start of it.
Write(p) == /\ At(p, "write")
            /\ file' = [file EXCEPT ![lane[p].fd] = "whole"]
            /\ lane' = [lane EXCEPT ![p].step = "publish"]
            /\ UNCHANGED <<blob, tmp, acquired, cut>>

\* os.replace; another lane may have taken the temporary name away.
Publish(p) ==
  /\ At(p, "publish")
  /\ LET c == Head(lane[p].todo)
     IN  IF tmp[c] = None
           THEN Raise(p) /\ UNCHANGED <<blob, tmp>>
           ELSE /\ blob' = [blob EXCEPT ![c] = tmp[c]]
                /\ tmp' = [tmp EXCEPT ![c] = None]
                /\ Return(p)
  /\ UNCHANGED <<file, cut>>

\* The disk is full, or the process dies between open and replace; it starts again.
CutShort(p) == /\ lane[p].step \in {"open", "write", "publish"}
               /\ Raise(p) /\ cut' = TRUE
               /\ UNCHANGED <<blob, tmp, file>>

\* Nothing is fsynced: names survive a power cut, what they name may not.
PowerCut == /\ \E lostFiles \in SUBSET (Range(blob) \ {None}) :
                 /\ lostFiles # {}
                 /\ file' = [i \in Files |-> IF i \in lostFiles THEN "broken" ELSE file[i]]
            /\ lane' = [p \in Lanes |-> Idle] /\ cut' = TRUE
            /\ UNCHANGED <<blob, tmp, acquired>>

StoreStep(p) == Look(p) \/ Open(p) \/ Write(p) \/ Publish(p)
-----------------------------------------------------------------------------
Whole(c) == blob[c] # None /\ file[blob[c]] = "whole"

Writing(c) == \E p \in Lanes : lane[p].step \in {"open", "write", "publish"}
                                /\ Head(lane[p].todo) = c

\* SettledIsWhole: lanes that store the same content at the same time truncate each
\* other's file and take its name away from each other; still, unless a write was cut
\* short, what is referenced can be read once nobody is writing it (put).
SettledIsWhole == ~cut => \A c \in Contents :
                            blob[c] # None /\ ~Writing(c) => Whole(c)

\* "atomic publish; a half-written blob never appears" (storage.py:176).
HalfWrittenNeverAppears == ~cut => \A c \in Contents : blob[c] # None => Whole(c)

\* "Idempotent by content hash" (storage.py:167): storing what is stored makes it
\* readable - also where a write was cut short.
StoredIsReadable ==
  [][\A fr \in acquired' \ acquired : \A n \in DOMAIN fr : Whole(fr[n])']_store
=============================================================================
