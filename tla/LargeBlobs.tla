------------------------------ MODULE LargeBlobs ------------------------------
(***************************************************************************)
(* The fragmented write of authenticatorLargeBlobs (cbor_large_blobs.c),   *)
(* under the token of PinToken: every other command of that module may     *)
(* come between two fragments, and several platforms may be writing.       *)
(*                                                                         *)
(* Lengths and offsets count units of data instead of bytes.  A unit is    *)
(* the name of the array it was cut from, so a sequence of units matches   *)
(* its checksum exactly when it is one whole array.  The bytes of temp_lba *)
(* beyond expectedNextOffset are never read, so the buffer is the sequence *)
(* `got', and expectedNextOffset is its length.  A get is a read.          *)
(***************************************************************************)
EXTENDS PinToken, Sequences

CONSTANTS
    Arrays,    \* large-blob arrays that platforms write
    ArrayLen,  \* their lengths
    MinLength, \* an array of this length is a checksum and one unit (17 bytes)
    MaxFragment \* bound: units in a fragment

ASSUME ArrayAssumption ==
    /\ MinLength \in Nat \ {0} /\ MaxFragment \in Nat
    /\ ArrayLen \in [Arrays -> Nat] /\ \A a \in Arrays : ArrayLen[a] >= MinLength

VARIABLES
    expectedLength, \* static: length announced with the last offset 0
    got,            \* temp_lba up to expectedNextOffset
    stored,         \* EF_LARGEBLOB; <<>> is the initial array
    acked           \* history: units of each array acknowledged since it was
                    \* started, none if another start, reset or power cut followed

statics  == <<expectedLength, got>>
blobVars == <<statics, stored, acked>>

Whole(a) == [i \in 1 .. ArrayLen[a] |-> a]

NothingAcked == [a \in Arrays |-> 0]

BlobTypeOK ==
    /\ expectedLength \in {0} \cup {ArrayLen[a] : a \in Arrays}
    /\ got \in Seq(Arrays) /\ Len(got) <= expectedLength
    /\ stored \in Seq(Arrays)
    /\ acked \in [Arrays -> Nat]

Units(a, n) == [i \in 1 .. n |-> a]

\* The checksum; it is not compared for the shortest arrays.
Intact(s) == Len(s) <= MinLength \/ \E a \in Arrays : s = Whole(a)

(***************************************************************************)
(* set                                                                     *)
(***************************************************************************)

\* The fragment is copied; the last one stores the array, if it is intact.
Copy(a, n, before, length) ==
    LET all == before \o Units(a, n) IN
    /\ got' = all
    /\ IF Len(all) = length /\ ~Intact(all)
         THEN UNCHANGED <<vars, stored, acked>>
         ELSE /\ WriteLargeBlob
              /\ stored' = IF Len(all) = length THEN all ELSE stored
              /\ acked' = IF before = <<>> THEN [NothingAcked EXCEPT ![a] = n]
                          ELSE [acked EXCEPT ![a] = @ + n]

\* mutant: a length announced earlier stays.
StartKeepsLength(a, n) ==
    /\ Allows("lbw")
    /\ n <= ArrayLen[a]
    /\ expectedLength' = IF expectedLength = 0 THEN ArrayLen[a] ELSE expectedLength
    /\ n <= expectedLength'
    /\ Copy(a, n, <<>>, expectedLength')

\* Offset 0 announces the length and starts again, whoever was writing.
Start(a, n) ==
    /\ Allows("lbw")
    /\ n <= ArrayLen[a]
    /\ expectedLength' = ArrayLen[a]
    /\ Copy(a, n, <<>>, ArrayLen[a])

\* So does one that is refused for the token, or for too long a fragment.
StartRefused(a) ==
    /\ expectedLength' = ArrayLen[a]
    /\ got' = <<>>
    /\ acked' = NothingAcked
    /\ UNCHANGED <<vars, stored>>

\* Any other offset must be the next one; no length is given with it, and
\* nothing tells which array the fragment belongs to.
Continue(a, n) ==
    /\ got # <<>>
    /\ Allows("lbw")
    /\ Len(got) + n <= expectedLength
    /\ Len(got) + n <= ArrayLen[a]
    /\ Copy(a, n, got, expectedLength)
    /\ UNCHANGED expectedLength

(***************************************************************************)
(* The other commands, reset and power                                     *)
(***************************************************************************)

\* The file is made anew; the statics stay, an unfinished array with them.
BlobReset ==
    /\ Reset
    /\ stored' = <<>>
    /\ acked' = NothingAcked
    /\ UNCHANGED statics

BlobPowerCycle ==
    /\ PowerCycle
    /\ expectedLength' = 0
    /\ got' = <<>>
    /\ acked' = NothingAcked
    /\ UNCHANGED stored

BlobInit ==
    /\ Init
    /\ expectedLength = 0
    /\ got = <<>>
    /\ stored = <<>>
    /\ acked = NothingAcked

BlobNext ==
    \/ Command /\ UNCHANGED blobVars
    \/ \E a \in Arrays, n \in 0 .. MaxFragment : Start(a, n) \/ Continue(a, n)
    \/ \E a \in Arrays : StartRefused(a)
    \/ BlobReset
    \/ BlobPowerCycle

BlobSpec == BlobInit /\ [][BlobNext]_<<vars, blobVars>>

(***************************************************************************)
(* Properties                                                              *)
(***************************************************************************)

\* A platform whose fragments were all acknowledged finds its array stored,
\* unless somebody started another array, refused or not, in between.
AckedIsStored == \A a \in Arrays : acked[a] = ArrayLen[a] => stored = Whole(a)
==============================================================================
