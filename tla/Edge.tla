-------------------------------- MODULE Edge --------------------------------
(***************************************************************************)
(* The services around the purchase that only listen or only answer: the   *)
(* Gateway's rate limiter, the Recommendation and the Notification         *)
(* service, and the listings of orders and payments.  They share no state  *)
(* and exchange no message, so their steps commute and none can violate a  *)
(* property of another: a behaviour moves one of them, `part`, and leaves  *)
(* the others at rest, whichever it is.                                    *)
(***************************************************************************)
EXTENDS TokenBucket, CoPurchase, Confirmations, Listing

VARIABLE part   \* the part that moves

vars == <<bucketVars, tallyVars, noticeVars, listingVars, part>>

TypeOK == BucketTypeOK /\ TallyTypeOK /\ NoticeTypeOK /\ ListingTypeOK

Init ==
  /\ part \in {"limiter", "recommendations", "notifications", "listing"}
  /\ BucketInit
  /\ TallyInit
  /\ NoticeInit
  /\ ListingInit

Next ==
  /\ \/ /\ part = "limiter"
        /\ BucketNext
        /\ UNCHANGED <<tallyVars, noticeVars, listingVars>>
     \/ /\ part = "recommendations"
        /\ TallyNext
        /\ UNCHANGED <<bucketVars, noticeVars, listingVars>>
     \/ /\ part = "notifications"
        /\ NoticeNext
        /\ UNCHANGED <<bucketVars, tallyVars, listingVars>>
     \/ /\ part = "listing"
        /\ ListingNext
        /\ UNCHANGED <<bucketVars, tallyVars, noticeVars>>
  /\ UNCHANGED part

Spec == Init /\ [][Next]_vars
=============================================================================
