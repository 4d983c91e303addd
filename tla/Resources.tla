----------------------------- MODULE Resources ------------------------------
(***************************************************************************)
(* How the client loads its textures (src/packages/client/src/resources.h) *)
(* before its main loop: one after the other, each image is unpacked into  *)
(* a buffer of its own by the loop of gunzipInMemory()                     *)
(* (src/packages/client/src/compression_utils.h), which doubles the buffer *)
(* when it is full.                                                        *)
(*                                                                         *)
(* inflate() (external) gets the whole input at once.  It writes as much   *)
(* as fits, and when that was all it answers Z_STREAM_END, or Z_OK if it   *)
(* stopped at the full buffer before the trailer.  A call that can neither *)
(* write nor end answers Z_BUF_ERROR, which the code takes for Z_OK.  The  *)
(* images are compiled in, so the input is complete and valid; their sizes *)
(* do not matter, so they are any.                                         *)
(***************************************************************************)
EXTENDS Naturals

CONSTANTS
    Images,   \* how many images are loaded
    Chunk,    \* the size of a new buffer (64 * 1024 bytes, here fewer)
    MaxSize   \* bound: the size of an unpacked image

ASSUME ResourcesAssumption == Images \in Nat /\ Chunk \in Nat \ {0} /\ MaxSize \in Nat \ {0}

VARIABLES
    image,  \* the image that is being unpacked, Images + 1 after the last
    left,   \* what inflate() has not written yet
    cap,    \* out.size()
    total   \* strm.total_out

loader == <<image, left, cap, total>>

LoadInit == image = 1 /\ left \in 1..MaxSize /\ cap = Chunk /\ total = 0

Loaded == image > Images

\* The definitions named Bad... are the code with a slip, each before the definition it
\* would replace.  This one waits for more than a full buffer.
BadGrown == IF total > cap THEN 2 * cap ELSE cap

\* The buffer that a round of the loop offers.
Grown == IF total >= cap THEN 2 * cap ELSE cap

\* Z_OK or Z_BUF_ERROR, the buffer being full: the loop goes on.
InflateMore ==
    /\ left >= Grown - total
    /\ left' = left - (Grown - total) /\ total' = Grown /\ cap' = Grown
    /\ UNCHANGED image

\* Z_STREAM_END: the texture is made, and the next image follows.
InflateEnd ==
    /\ left <= Grown - total
    /\ image' = image + 1 /\ cap' = Chunk /\ total' = 0
    /\ IF image < Images THEN left' \in 1..MaxSize ELSE left' = 0

\* One round of the loop.
gunzipInMemory == ~Loaded /\ (InflateMore \/ InflateEnd)

=============================================================================
