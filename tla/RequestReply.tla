---------------------------- MODULE RequestReply ----------------------------
(***************************************************************************)
(* What the page of a portal is promised by the plugin that CryptoKiddie   *)
(* injects into it (browser/gosuslugi-inject.js): a listener replies to a  *)
(* message that has been posted in full, once, and with the answer to that *)
(* message.  The one exception is a page that has been loaded anew, whose  *)
(* requests may be taken for those of a load before it.                    *)
(***************************************************************************)
EXTENDS Naturals, Sequences

CONSTANT Message    \* what the page may ask

VARIABLES
  asked,      \* the messages posted in full
  replies     \* for each call replied to, the replies: the answer of which call, resolved?

Ask ==
  /\ asked' \in SUBSET Message /\ asked \subseteq asked'
  /\ UNCHANGED replies

\* A call is a message, the load of the page and the listener that got it.
Reply ==
  \E call \in DOMAIN replies' \ DOMAIN replies :
    /\ call.message \in asked
    /\ \E ok \in BOOLEAN : \E of \in {replies'[call][1].of} :
         /\ of = call \/ of.load < call.load
         /\ replies' = [c \in DOMAIN replies \cup {call} |->
                          IF c = call THEN << [of |-> of, ok |-> ok] >> ELSE replies[c]]
    /\ UNCHANGED asked

Init == asked = {} /\ replies = <<>>

Next == Ask \/ Reply

Spec == Init /\ [][Next]_<<asked, replies>>
=============================================================================
