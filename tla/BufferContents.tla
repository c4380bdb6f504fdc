--------------------------- MODULE BufferContents ---------------------------
(***************************************************************************)
(* What an application may expect of one buffer, whatever memory it lives   *)
(* in: an array of bytes that only its own stores change, through a         *)
(* mapping opened for writing or from a device kernel between mappings.     *)
(* Migration, refresh and flush do not exist at this level.                 *)
(***************************************************************************)
CONSTANTS Offset, Value, Zero

VARIABLES contents, mode

Init == contents = [i \in Offset |-> Zero] /\ mode = {}

Open(flags) == mode = {} /\ mode' = flags /\ UNCHANGED contents
Close == mode # {} /\ mode' = {} /\ UNCHANGED contents

Store(i, v) ==
  /\ "W" \in mode \/ mode = {}
  /\ contents' = [contents EXCEPT ![i] = v]
  /\ UNCHANGED mode

Next ==
  \/ \E flags \in SUBSET {"R", "W"} : Open(flags)
  \/ Close
  \/ \E i \in Offset, v \in Value : Store(i, v)

Spec == Init /\ [][Next]_<<contents, mode>>
=============================================================================
