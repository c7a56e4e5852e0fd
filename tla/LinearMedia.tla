---------------------------- MODULE LinearMedia ----------------------------
(***************************************************************************)
(* What a handle promises of the media, however it is split over files: a  *)
(* sequence of bytes with a position.  What was written is, byte for byte  *)
(* and at the same offsets, what is read when the image is opened again.   *)
(***************************************************************************)
EXTENDS Naturals, Sequences

CONSTANTS
  Bytes,     \* the values of a byte
  MaxMedia   \* bound on the size of the media

VARIABLES
  media,  \* the bytes
  pos,    \* where the next read or write takes place
  limit,  \* the size the media was announced to have, 0 for none
  mode    \* "write", or "read" once the image is opened again

Overwrite(seq, at, bytes) ==
  [i \in 1 .. (IF at + Len(bytes) > Len(seq) THEN at + Len(bytes) ELSE Len(seq)) |->
     IF i \in at + 1 .. at + Len(bytes) THEN bytes[i - at] ELSE seq[i]]

NonEmptySeqs(n) == UNION {[1 .. k -> Bytes] : k \in 1 .. n}

LinearInit ==
  /\ media = << >> /\ pos = 0 /\ limit = 0 /\ mode = "write"

Announce ==
  /\ mode = "write" /\ media = << >>
  /\ limit' \in 0 .. MaxMedia
  /\ UNCHANGED <<media, pos, mode>>

Put ==
  /\ mode = "write"
  /\ \E bytes \in NonEmptySeqs(MaxMedia) :
       /\ limit > 0 => pos + Len(bytes) <= limit
       /\ media' = Overwrite(media, pos, bytes)
       /\ pos' = pos + Len(bytes)
  /\ UNCHANGED <<limit, mode>>

Move ==
  /\ pos' \in 0 .. Len(media)
  /\ UNCHANGED <<media, limit, mode>>

Get ==
  /\ mode = "read"
  /\ pos' \in pos + 1 .. Len(media)
  /\ UNCHANGED <<media, limit, mode>>

OpenAgain ==
  /\ mode = "write"
  /\ mode' = "read" /\ pos' = 0 /\ limit' = Len(media)
  /\ UNCHANGED media

LinearNext == Announce \/ Put \/ Move \/ Get \/ OpenAgain

LinearSpec == LinearInit /\ [][LinearNext]_<<media, pos, limit, mode>>
=============================================================================
