--------------------------- MODULE ResponseStore ---------------------------
(***************************************************************************)
(* What the store of HTTP responses promises: under each key there are     *)
(* files of one response or nothing.  A response gets there whole, in one  *)
(* step and at most once; from then on files only go away, until another   *)
(* response takes the place.  How a response is written, what is left of   *)
(* it on disk when that fails and who removes it are not visible here.     *)
(***************************************************************************)
CONSTANTS
  Res,      \* the keys
  Version   \* the responses

VARIABLES
  contents, \* the files under each key: pairs of a name and a response
  taken     \* the responses that were stored or given up

File == {"head", "sigs", "body"}

\* The files names of response v.
Whole(names, v) == {<<f, v>> : f \in names}

\* Nothing is stored yet; some of the responses may never arrive.
RSInit == contents = [k \in Res |-> {}] /\ taken \in SUBSET Version

\* A response that was not stored before takes the place of what is there.
Replace(k, v) ==
  /\ v \in Version \ taken
  /\ \E names \in SUBSET File : contents' = [contents EXCEPT ![k] = Whole(names, v)]
  /\ taken' = taken \cup {v}

\* Files are removed, or responses given up, or both when the process stops.
TakeAway ==
  /\ contents' \in [Res -> SUBSET (File \X Version)]
  /\ \A k \in Res : contents'[k] \subseteq contents[k]
  /\ taken' \in SUBSET Version /\ taken \subseteq taken'

RSNext == (\E k \in Res, v \in Version : Replace(k, v)) \/ TakeAway

RSSpec == RSInit /\ [][RSNext]_<<contents, taken>>
=============================================================================
