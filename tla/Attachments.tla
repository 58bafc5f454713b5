---------------------------- MODULE Attachments ----------------------------
(***************************************************************************)
(* The talkgroups each peer receives (internal/peers/attachments.go): the  *)
(* ones the operator configured, and the ones a member attached by         *)
(* transmitting.                                                           *)
(***************************************************************************)
EXTENDS Frames

CONSTANTS Subscriptions,     \* the settings an operator may save
          AttachmentTimeout

Attachable == Peers \X Talkgroups

(* A setting: is attachment in force, and what is always attached.         *)
ASSUME AttachmentAssumption ==
  /\ Subscriptions \subseteq [enabled : BOOLEAN, static : SUBSET Attachable]
  /\ AttachmentTimeout \in Nat

VARIABLES subscription,  \* MasterConfig.Subscription
          attachments,   \* Master.attachments
          asked          \* history variable: when a peer last transmitted on
                         \* a talkgroup with attachment in force, unless a
                         \* member has dropped it since

attachmentVars == <<subscription, attachments, asked>>

Detached == [held |-> FALSE, static |-> FALSE, used |-> Never]
Static   == [held |-> TRUE, static |-> TRUE, used |-> Never]

AttachmentType == [held : BOOLEAN, static : BOOLEAN, used : 0..MaxTime]

(* seedStaticAttachments                                                   *)
Seeded(s, a) == [k \in Attachable |-> IF k \in s.static THEN Static ELSE a[k]]

AttachmentInit ==
  /\ subscription \in Subscriptions
  /\ attachments = Seeded(subscription, [k \in Attachable |-> Detached])
  /\ asked = [k \in Attachable |-> Never]

(* attach                                                                  *)
Attach(a, k) ==
  IF subscription.enabled THEN [a EXCEPT ![k].held = TRUE, ![k].used = now] ELSE a

(* Attached, which routing asks.                                           *)
Attached(k) ==
  \/ ~subscription.enabled
  \/ attachments[k].static
  \/ attachments[k].held /\ Within(attachments[k].used, AttachmentTimeout)

(* DropAttachments                                                         *)
DropAttachments(a, p) ==
  [k \in Attachable |-> IF k[1] = p /\ ~a[k].static THEN Detached ELSE a[k]]

(* expireAttachments                                                       *)
ExpireAttachments(a) ==
  [k \in Attachable |-> IF a[k].static \/ Within(a[k].used, AttachmentTimeout)
                        THEN a[k] ELSE Detached]

(* Mutant: a save starts the attachments over.                             *)
SetSubscriptionAfresh(s, a) == Seeded(s, [k \in Attachable |-> Detached])

(* SetSubscription: what is no longer configured becomes dynamic.          *)
SetSubscription(s, a) == Seeded(s, [k \in Attachable |-> [a[k] EXCEPT !.static = FALSE]])

(* A peer transmits on a talkgroup, and drops its talkgroups if it asks to.*)
Uses(k, drops) ==
  /\ attachments' = IF drops THEN DropAttachments(Attach(attachments, k), k[1])
                    ELSE Attach(attachments, k)
  /\ asked' = [j \in Attachable |->
                 IF drops /\ j[1] = k[1] /\ ~attachments[j].static THEN Never
                 ELSE IF j = k /\ subscription.enabled THEN now ELSE asked[j]]
  /\ UNCHANGED subscription

(* What the listener's sweep does: a save that is waiting, and the lapse.  *)
SweepAttachments(s, saved) ==
  /\ subscription' = s
  /\ attachments' = ExpireAttachments(IF saved THEN SetSubscription(s, attachments)
                                      ELSE attachments)
  /\ UNCHANGED asked
-----------------------------------------------------------------------------
(* What the operator configured is always received, whatever members do    *)
(* and however often the configuration is saved ("A static attachment never*)
(* lapses", Attachment.Static; DropAttachments, expireAttachments).        *)
StaticIsHeard ==
  \A k \in Attachable : k \in subscription.static => Attached(k)

(* A peer receives, with attachment in force, only what is configured or   *)
(* what it transmitted on itself within the timeout and did not drop.      *)
HeardIsAsked ==
  \A k \in Attachable :
    subscription.enabled /\ Attached(k) =>
      k \in subscription.static \/ Within(asked[k], AttachmentTimeout)

(* "a member who attached a talkgroup by transmitting should not lose it   *)
(* because an administrator saved an unrelated change" (SetSubscription),  *)
(* of the talkgroups no setting names: a save that configures a talkgroup  *)
(* forgets when it was last used, so one that is no longer configured is   *)
(* lost at once.                                                           *)
AskedIsHeard ==
  \A k \in Attachable \ UNION {s.static : s \in Subscriptions} :
    Within(asked[k], AttachmentTimeout) => Attached(k)
=============================================================================
