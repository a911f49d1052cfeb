------------------------------ MODULE Listing ------------------------------
(***************************************************************************)
(* The listing of one directory: opendir() opens the directory of every    *)
(* tier that has it, readdir() walks the streams one after the other, and  *)
(* the kernel calls it again with the offset of the last entry it got      *)
(* until a reply is empty.  Meanwhile movers take files from one tier to   *)
(* another (TierMigration).                                                *)
(*                                                                         *)
(* Abstractions: a name is a file, its hidden temporary, or Sub, which     *)
(* stands for ".", ".." and the subdirectories and is in every tier.       *)
(* Each tier's file system gives an entry a cookie, the offset behind it,  *)
(* and reads the entries in the order of their cookies; it may give a name *)
(* any free one.  A stream reads the directory as it is (libc reads ahead, *)
(* which a file that stands still does not notice).                        *)
(***************************************************************************)
EXTENDS Integers, FiniteSets, FiniteSetsExt

CONSTANTS
    File,
    NTiers,     \* number of tiers
    MaxCookie,  \* bound: cookies of a directory
    Rooms,      \* bytes a reply may have
    Length,     \* bytes of each name in a reply
    MaxMoves,   \* bound: files moved
    MaxCount,   \* bound: times an entry is counted
    Sub, None

Tier == 1 .. NTiers
Hidden(f) == <<f, "hide">>
Entry == File \cup {Hidden(f) : f \in File} \cup {Sub}
Cookie == 0 .. MaxCookie        \* 0: the start of a directory, or no such entry

ASSUME ListingAssumption ==
    /\ Sub \notin File /\ None \notin Entry /\ IsFiniteSet(File)
    /\ NTiers \in Nat \ {0} /\ MaxCookie \in Nat /\ MaxCount \in Nat /\ MaxMoves \in Nat
    /\ Rooms \subseteq Nat /\ Rooms # {} /\ Length \in [Entry -> 1 .. Min(Rooms)]

VARIABLES
    cookie,         \* each tier's directory
    open, position, \* dirp: tiers whose stream is open, their positions
    entry, offset,  \* dirp::entry and dirp::offset
    pc, current,    \* the request, the stream it is at
    asked, last,    \* offset of the call; of the last entry handed out
    room, empty,    \* bytes the reply has left, whether it is empty
    moving, moves,  \* the file a mover is at, step and tiers; files moved
    listed,         \* times each entry has been handed out, up to MaxCount
    full, moved     \* history: a reply was full; files moved during the listing

dir == <<open, position, entry, offset>>
call == <<pc, current, asked, last, room, empty>>
past == <<listed, full>>
vars == <<cookie, dir, call, moving, moves, past, moved>>
-----------------------------------------------------------------------------
In(t) == {e \in Entry : cookie[t][e] # 0}

\* Every file is in one tier, any may have left a temporary behind.
Init ==
    /\ cookie \in [Tier -> [Entry -> Cookie]]
    /\ \A t \in Tier : Sub \in In(t)
    /\ \A t \in Tier : \A a, b \in In(t) : cookie[t][a] = cookie[t][b] => a = b
    /\ \A f \in File : Cardinality({t \in Tier : f \in In(t)}) = 1
    /\ open = {} /\ position = [t \in Tier |-> 0] /\ entry = None /\ offset = 0
    /\ pc = "closed" /\ current = 1 /\ asked = 0 /\ last = 0 /\ room = 0 /\ empty = TRUE
    /\ moving = None /\ moves = 0
    /\ listed = [e \in Entry |-> 0] /\ full = FALSE /\ moved = {}

\* A tier whose opendir fails is ignored.
Opendir ==
    /\ pc = "closed" /\ pc' = "idle"
    /\ open' \in SUBSET Tier \ {{}}
    /\ position' = [t \in Tier |-> 0] /\ entry' = None /\ offset' = 0
    /\ last' = 0 /\ listed' = [e \in Entry |-> 0] /\ full' = FALSE
    /\ moved' = IF moving = None THEN {} ELSE {moving.file}
    /\ UNCHANGED <<cookie, current, asked, room, empty, moving, moves>>

\* The kernel goes on behind the last entry it got.
Readdir ==
    /\ pc = "idle" /\ pc' = "enter"
    /\ current' = Min(open) /\ asked' = last /\ room' \in Rooms /\ empty' = TRUE
    /\ UNCHANGED <<cookie, dir, last, moving, moves, past, moved>>

\* One offset serves all the streams.
EnterStream ==
    /\ pc = "enter" /\ pc' = "read"
    /\ IF asked # offset
       THEN /\ position' = [position EXCEPT ![current] = asked]
            /\ entry' = None /\ offset' = asked
       ELSE UNCHANGED <<position, entry, offset>>
    /\ UNCHANGED <<cookie, open, current, asked, last, room, empty, moving, moves, past, moved>>

Ahead == {e \in In(current) : cookie[current][e] > position[current]}
Nearest(e) == e \in Ahead /\ \A x \in Ahead : cookie[current][e] <= cookie[current][x]

\* A fresh directory entry of a later stream, and temporaries, are not shown.
Shown(e, fresh) == (e = Sub => ~fresh \/ current = Min(open)) /\ \A f \in File : e # Hidden(f)

Keep(e) == /\ entry' = e /\ full' = TRUE /\ pc' = "leave"
           /\ UNCHANGED <<room, empty, last, listed, offset>>
\* Mutant: dirp::offset does not follow.
DropEntry(at) == entry' = None /\ UNCHANGED offset
Drop(at) == /\ entry' = None /\ offset' = at

\* Mutant: the size of the reply is not looked at.
FillAny(e, at) ==
    /\ room' = room - Length[e] /\ empty' = FALSE /\ last' = at
    /\ listed' = [listed EXCEPT ![e] = IF @ = MaxCount THEN @ ELSE @ + 1]
    /\ Drop(at)
    /\ UNCHANGED <<pc, full>>
\* filler takes the entry, or refuses it and it is kept for the next call.
Fill(e, at) ==
    \/ /\ Length[e] <= room
       /\ room' = room - Length[e] /\ empty' = FALSE /\ last' = at
       /\ listed' = [listed EXCEPT ![e] = IF @ = MaxCount THEN @ ELSE @ + 1]
       /\ Drop(at)
       /\ UNCHANGED <<pc, full>>
    \/ Length[e] > room /\ Keep(e)

\* Mutant: an entry that is not shown ends the stream.
TakeOrStop(e, at, fresh) ==
    /\ position' = [position EXCEPT ![current] = at]
    /\ \/ Shown(e, fresh) /\ Fill(e, at)
       \/ ~Shown(e, fresh) /\ Drop(at) /\ pc' = "leave"
                          /\ UNCHANGED <<room, empty, last, listed, full>>
Take(e, at, fresh) ==
    /\ position' = [position EXCEPT ![current] = at]
    /\ \/ Shown(e, fresh) /\ Fill(e, at)
       \/ ~Shown(e, fresh) /\ Drop(at) /\ UNCHANGED <<pc, room, empty, last, listed, full>>

\* Mutant: the place is asked for before the entry is read.
ReadEarly ==
    /\ pc = "read"
    /\ \/ entry # None /\ Take(entry, position[current], FALSE)
       \/ entry = None /\ \E e \in Ahead : Nearest(e) /\ Take(e, position[current], TRUE)
    /\ UNCHANGED <<cookie, open, current, asked, moving, moves, moved>>
\* The entry that was kept, whatever stream it came from, or the next of this stream.
ReadEntry ==
    /\ pc = "read"
    /\ \/ entry # None /\ Take(entry, position[current], FALSE)
       \/ entry = None /\ \E e \in Ahead : Nearest(e) /\ Take(e, cookie[current][e], TRUE)
    /\ UNCHANGED <<cookie, open, current, asked, moving, moves, moved>>

EndOfStream ==
    /\ pc = "read" /\ entry = None /\ Ahead = {}
    /\ pc' = "leave"
    /\ UNCHANGED <<cookie, dir, current, asked, last, room, empty, moving, moves, past, moved>>

Later == {t \in open : t > current}
NextStream ==
    /\ pc = "leave" /\ Later # {}
    /\ pc' = "enter" /\ current' = Min(Later)
    /\ UNCHANGED <<cookie, dir, asked, last, room, empty, moving, moves, past, moved>>

\* The reply; the kernel stops at an empty one.
Reply ==
    /\ pc = "leave" /\ Later = {}
    /\ pc' = IF empty THEN "done" ELSE "idle"
    /\ UNCHANGED <<cookie, dir, current, asked, last, room, empty, moving, moves, past, moved>>

Releasedir ==
    /\ pc = "done" /\ pc' = "closed"
    /\ open' = {}
    /\ UNCHANGED <<cookie, position, entry, offset, current, asked, last, room, empty, moving, moves,
                   past, moved>>

List == Opendir \/ Readdir \/ EnterStream \/ ReadEntry \/ EndOfStream \/ NextStream \/ Reply
        \/ Releasedir
-----------------------------------------------------------------------------
(* A move: copy to a temporary, remove the source, rename *)

Free(t) == (1 .. MaxCookie) \ {cookie[t][e] : e \in Entry}

MoveCopy(f, from, to) ==
    /\ moving = None /\ moves < MaxMoves /\ f \in In(from) /\ from # to
    /\ Hidden(f) \notin In(to)
    /\ moving' = [file |-> f, from |-> from, to |-> to] /\ moves' = moves + 1
    /\ moved' = moved \cup {f}
    /\ \E c \in Free(to) : cookie' = [cookie EXCEPT ![to][Hidden(f)] = c]
    /\ UNCHANGED <<dir, call, past>>

MoveRemove ==
    /\ moving # None /\ moving.file \in In(moving.from)
    /\ cookie' = [cookie EXCEPT ![moving.from][moving.file] = 0]
    /\ UNCHANGED <<dir, call, moving, moves, past, moved>>

MoveRename ==
    /\ moving # None /\ moving.file \notin In(moving.from)
    /\ \E c \in Free(moving.to) :
          cookie' = [cookie EXCEPT ![moving.to][Hidden(moving.file)] = 0,
                                   ![moving.to][moving.file] = c]
    /\ moving' = None
    /\ UNCHANGED <<dir, call, moves, past, moved>>

Move == \/ \E f \in File, from, to \in Tier : MoveCopy(f, from, to)
        \/ MoveRemove \/ MoveRename

Next == List \/ Move

\* The process that lists a directory reads it to the end.
Spec == Init /\ [][Next]_vars /\ WF_vars(List)
-----------------------------------------------------------------------------
(* Properties *)

TypeOK ==
    /\ cookie \in [Tier -> [Entry -> Cookie]] /\ open \subseteq Tier
    /\ position \in [Tier -> Cookie] /\ entry \in Entry \cup {None}
    /\ offset \in Cookie /\ asked \in Cookie /\ last \in Cookie /\ room \in 0 .. Max(Rooms)
    /\ pc \in {"closed", "idle", "enter", "read", "leave", "done"} /\ current \in Tier
    /\ moved \subseteq File /\ listed \in [Entry -> 0 .. MaxCount]

\* Files that stood still in a tier the listing has open.
Standing == {f \in File \ moved : \E t \in open : f \in In(t)}

\* One offset is enough for one stream, or for one reply.
Simple == ~full \/ Cardinality(open) = 1

\* readdir() merges the streams whatever the movers do: a finished listing shows every file
\* that stood still and never a temporary, also when it takes several replies as long as
\* one tier has the directory; of several tiers, when no reply was full.
NothingMissing ==
    /\ pc = "done" /\ Simple => \A f \in Standing : listed[f] > 0
    /\ \A f \in File : listed[Hidden(f)] = 0

\* The entry that ends the last stream.
LastRead == CHOOSE e \in In(Max(open)) : \A x \in In(Max(open)) :
                cookie[Max(open)][x] <= cookie[Max(open)][e]

\* Under the same conditions no file is shown twice when nothing moved and, of several
\* tiers, the last stream ends with a file: else dirp::offset is past the last entry the
\* kernel got, and its last call sends the first stream to a place of the last one.
ListedOnce ==
    /\ pc = "done" /\ Simple /\ moved = {}
    /\ Cardinality(open) = 1 \/ LastRead \in File
    => \A f \in File : listed[f] <= 1

\* A listing ends, although the offsets of several streams are mixed.
ListingEnds == pc = "idle" ~> pc = "done"

\* "a merging passthrough" (README.md:5): a listing shows every file that stood still.
WholeListing == pc = "done" => \A f \in Standing : listed[f] > 0
=============================================================================
