----------------------------- MODULE Providers ------------------------------
(***************************************************************************)
(* What the senders say to a provider and what they make of its reply:     *)
(* sendOne of internal/apns/apns.go and of internal/fcm/fcm.go, with       *)
(* errorCode and tokenFieldViolation.  Constant-level operators; Dispatch  *)
(* composes them with the worker pool.                                     *)
(*                                                                         *)
(* The providers are external.  A reply of APNs is its reason; a reply of  *)
(* FCM is an HTTP status code and a body: its size, whether it is JSON,    *)
(* the status and the details in it.  "none" is the empty string, which    *)
(* the code takes for a field that is not there.                           *)
(***************************************************************************)
EXTENDS Integers, Sequences

\* push.Platform, push.Kind, and the push.Status values a Sender can answer.
Platforms == {"ios", "android"}
Kinds == {"message", "mention", "call", "wake"}
SendStatuses == {"delivered", "unregistered", "error"}

-----------------------------------------------------------------------------
(* APNs.                                                                   *)

\* The keys of genericAlert: the kinds that show something.
AlertKinds == {"message", "mention"}

\* Mutant: a call keeps the plain topic.
NotificationPlainTopic(kind) ==
  LET call == kind = "call"
      alert == kind \in AlertKinds
  IN [topic |-> "bundle",
      pushType |-> IF call THEN "voip" ELSE IF alert THEN "alert"
                   ELSE "background",
      priority |-> IF call \/ alert THEN "high" ELSE "low",
      visible |-> alert]

\* The apns2.Notification for a message of this kind.
Notification(kind) ==
  LET call == kind = "call"
      alert == kind \in AlertKinds
  IN [topic |-> IF call THEN "bundle.voip" ELSE "bundle",
      pushType |-> IF call THEN "voip" ELSE IF alert THEN "alert"
                   ELSE "background",
      priority |-> IF call \/ alert THEN "high" ELSE "low",
      visible |-> alert]

\* The gateway takes a notification whose headers fit its payload: PushKit
\* pushes on the VoIP topic and no others, and high priority only for them
\* and for what the user sees (apns.go:112).
WellFormed(n) ==
  /\ n.topic = "bundle.voip" <=> n.pushType = "voip"
  /\ n.pushType = "alert" <=> n.visible
  /\ n.priority = "high" => n.visible \/ n.pushType = "voip"

\* No reason is a 200.  A token that is not in use any more, or that was made for
\* the other gateway, is one of three reasons; anything else is about the
\* request or the load.
DeadReasons == {"Unregistered", "BadDeviceToken", "ExpiredToken"}
ApnsReplies(n, dead) ==
  LET reasons == CASE ~WellFormed(n) -> {"BadTopic"}
                   [] WellFormed(n) /\ dead -> DeadReasons
                   [] OTHER -> {"none", "TooManyRequests"}
  IN [from : {"apns"}, reason : reasons]

ApnsStatus(reply) ==
  IF reply.reason = "none" THEN "delivered"
  ELSE IF reply.reason \in {"Unregistered", "BadDeviceToken", "ExpiredToken"}
    THEN "unregistered" ELSE "error"

-----------------------------------------------------------------------------
(* FCM.                                                                    *)

Detail(code, fields) == [errorCode |-> code, fieldViolations |-> fields]
FcmReply(code, size, status, details) ==
  [from |-> "fcm", code |-> code, size |-> size, status |-> status,
   details |-> details]

\* A token that is gone is a 404; a corrupt one a 400 that names the field,
\* whose details come in either order and whose pretty-printed body runs to
\* several hundred bytes.  A 400 about another field, an overloaded service
\* and a proxy's HTML page (no status, no details) say nothing about the
\* token.
FcmReplies(dead) ==
  LET invalid == Detail("INVALID_ARGUMENT", {})
      token == Detail("none", {"message.token"})
      data == Detail("none", {"message.data"})
  IN IF dead
     THEN {FcmReply(404, 400, "NOT_FOUND", <<Detail("UNREGISTERED", {})>>),
           FcmReply(400, 900, "INVALID_ARGUMENT", <<invalid, token>>),
           FcmReply(400, 900, "INVALID_ARGUMENT", <<token, invalid>>)}
     ELSE {FcmReply(200, 100, "none", <<>>),
           FcmReply(400, 900, "INVALID_ARGUMENT", <<data, invalid>>),
           FcmReply(503, 300, "UNAVAILABLE", <<>>),
           FcmReply(502, 20000, "none", <<>>)}

\* Mutant: the cap that the comment warns of.
maxErrorBodyBytesTight == 512

maxErrorBodyBytes == 16 * 1024

\* What is read of a longer body is not a JSON document.
Parses(reply) == reply.size <= maxErrorBodyBytes

\* The first code among the details, or else the status.
errorCode(reply) ==
  LET named == {i \in DOMAIN reply.details : reply.details[i].errorCode # "none"}
      first == CHOOSE i \in named : \A j \in named : i <= j
  IN CASE ~Parses(reply) -> "none"
       [] Parses(reply) /\ named # {} -> reply.details[first].errorCode
       [] OTHER -> reply.status

\* Mutant: any field violation will do.
tokenFieldViolationAny(reply) ==
  /\ Parses(reply)
  /\ \E i \in DOMAIN reply.details : reply.details[i].fieldViolations # {}

tokenFieldViolation(reply) ==
  /\ Parses(reply)
  /\ \E i \in DOMAIN reply.details :
       "message.token" \in reply.details[i].fieldViolations

FcmStatus(reply) ==
  CASE reply.code < 300 -> "delivered"
    [] reply.code = 400 /\ tokenFieldViolation(reply) -> "unregistered"
    [] reply.code >= 300 /\ errorCode(reply) = "UNREGISTERED" -> "unregistered"
    [] OTHER -> "error"

-----------------------------------------------------------------------------
(* Both.                                                                   *)

Replies(m, dead) ==
  IF m.platform = "ios" THEN ApnsReplies(Notification(m.kind), dead)
  ELSE FcmReplies(dead)

SendStatus(reply) ==
  IF reply.from = "apns" THEN ApnsStatus(reply) ELSE FcmStatus(reply)

\* The provider has taken the message.
Accepts(reply) ==
  IF reply.from = "apns" THEN reply.reason = "none" ELSE reply.code < 300
=============================================================================
