--------------------------- MODULE ProviderProofs ---------------------------
(***************************************************************************)
(* What the senders make of a reply, for every kind of message and every   *)
(* reply: the facts about Providers that the proofs about the pool rest    *)
(* on.                                                                     *)
(***************************************************************************)
EXTENDS Providers, TLAPS

-----------------------------------------------------------------------------
(* APNs.                                                                   *)

\* FitsKind: the headers that apns.go chooses fit the payload it chooses,
\* for every kind.
LEMMA FitsKind ==
  ASSUME NEW k \in Kinds
  PROVE  WellFormed(Notification(k))
BY DEF Kinds, AlertKinds, Notification, WellFormed

\* ApnsMeaning: a reply to a well-formed notification never complains about
\* its headers, and sendOne reads it as unregistered exactly when the token
\* is dead, as delivered exactly when the gateway took the notification.
LEMMA ApnsMeaning ==
  ASSUME NEW n, WellFormed(n), NEW d \in BOOLEAN, NEW r \in ApnsReplies(n, d)
  PROVE  /\ r.from = "apns"
         /\ r.reason # "BadTopic"
         /\ ApnsStatus(r) \in SendStatuses
         /\ ApnsStatus(r) = "unregistered" <=> d
         /\ ApnsStatus(r) = "delivered" <=> r.reason = "none"
<1>1. r.from = "apns" /\ r.reason \in IF d THEN DeadReasons
                                     ELSE {"none", "TooManyRequests"}
  BY DEF ApnsReplies
<1> QED BY <1>1 DEF ApnsStatus, SendStatuses, DeadReasons

-----------------------------------------------------------------------------
(* FCM.                                                                    *)

\* LeastChosen: CHOOSE picks the least element of a set that has one.
LEMMA LeastChosen ==
  ASSUME NEW S \in SUBSET Nat, NEW m \in S, \A j \in S : m <= j
  PROVE  (CHOOSE i \in S : \A j \in S : i <= j) = m
<1> DEFINE c == CHOOSE i \in S : \A j \in S : i <= j
<1>1. c \in S /\ \A j \in S : c <= j
  OBVIOUS
<1> HIDE DEF c
<1>2. c = m
  BY <1>1
<1> QED BY <1>2 DEF c

\* ErrorCodeFirst: errorCode returns the code of the first detail that has
\* one.
LEMMA ErrorCodeFirst ==
  ASSUME NEW r, Parses(r), DOMAIN r.details \subseteq Nat,
         NEW m \in DOMAIN r.details, r.details[m].errorCode # "none",
         \A j \in DOMAIN r.details : r.details[j].errorCode # "none" => m <= j
  PROVE  errorCode(r) = r.details[m].errorCode
<1> DEFINE S == {i \in DOMAIN r.details : r.details[i].errorCode # "none"}
<1>1. S \in SUBSET Nat /\ m \in S /\ \A j \in S : m <= j
  OBVIOUS
<1>2. (CHOOSE i \in S : \A j \in S : i <= j) = m
  BY <1>1, LeastChosen
<1>3. S # {}
  BY <1>1
<1> QED BY <1>2, <1>3, Zenon DEF errorCode

\* ErrorCodeNone: without a code among the details errorCode returns the
\* status.
LEMMA ErrorCodeNone ==
  ASSUME NEW r, Parses(r), \A j \in DOMAIN r.details : r.details[j].errorCode = "none"
  PROVE  errorCode(r) = r.status
<1> DEFINE S == {i \in DOMAIN r.details : r.details[i].errorCode # "none"}
<1>1. S = {}
  OBVIOUS
<1> QED BY <1>1, Zenon DEF errorCode

\* ErrorCodeCut: a body that was cut off has no code.
LEMMA ErrorCodeCut ==
  ASSUME NEW r, ~Parses(r)
  PROVE  errorCode(r) = "none"
BY Zenon DEF errorCode

\* FcmNamed: a refusal whose first code is UNREGISTERED.
LEMMA FcmNamed ==
  ASSUME NEW r, r.code = 404, Parses(r), errorCode(r) = "UNREGISTERED"
  PROVE  FcmStatus(r) = "unregistered"
BY DEF FcmStatus

\* FcmBadToken: a 400 that names the token's field.
LEMMA FcmBadToken ==
  ASSUME NEW r, r.code = 400, tokenFieldViolation(r)
  PROVE  FcmStatus(r) = "unregistered"
BY DEF FcmStatus

\* FcmBadField: any other refusal.
LEMMA FcmRefusal ==
  ASSUME NEW r, r.code \in Nat, r.code >= 300, ~tokenFieldViolation(r),
         errorCode(r) # "UNREGISTERED"
  PROVE  FcmStatus(r) = "error"
BY DEF FcmStatus

\* FcmTaken: a success.
LEMMA FcmTaken ==
  ASSUME NEW r, r.code \in Nat, r.code < 300
  PROVE  FcmStatus(r) = "delivered"
BY DEF FcmStatus

\* OneDetail: a reply with one detail.
LEMMA OneDetail ==
  ASSUME NEW d, NEW x, d = <<x>>
  PROVE  DOMAIN d = {1} /\ d[1] = x
OBVIOUS

\* TwoDetails: a reply with two.
LEMMA TwoDetails ==
  ASSUME NEW d, NEW x, NEW y, d = <<x, y>>
  PROVE  DOMAIN d = {1, 2} /\ d[1] = x /\ d[2] = y
OBVIOUS

\* Indices: the positions of one and of two details.
LEMMA Indices ==
  /\ 1 \in {1} /\ {1} \subseteq Nat /\ \A j \in {1} : 1 <= j
  /\ 2 \in {1, 2} /\ {1, 2} \subseteq Nat
  /\ \A j \in {1, 2} : j = 1 \/ j = 2
  /\ 2 <= 2
OBVIOUS

\* CodeOfOne: the code of a reply with one detail.
LEMMA CodeOfOne ==
  ASSUME NEW r, Parses(r), DOMAIN r.details = {1}, r.details[1].errorCode # "none"
  PROVE  errorCode(r) = r.details[1].errorCode
<1>1. /\ 1 \in DOMAIN r.details /\ DOMAIN r.details \subseteq Nat
      /\ \A j \in DOMAIN r.details : r.details[j].errorCode # "none" => 1 <= j
  BY Indices, Zenon
<1> QED BY <1>1, ErrorCodeFirst, Zenon

\* CodeOfSecond: a first detail without a code is passed over.
LEMMA CodeOfSecond ==
  ASSUME NEW r, Parses(r), DOMAIN r.details = {1, 2},
         r.details[1].errorCode = "none", r.details[2].errorCode # "none"
  PROVE  errorCode(r) = r.details[2].errorCode
<1>1. 2 \in DOMAIN r.details /\ DOMAIN r.details \subseteq Nat
  BY Indices, Zenon
<1>2. \A j \in DOMAIN r.details : j = 1 \/ j = 2
  BY Indices, Zenon
<1>3. \A j \in DOMAIN r.details : r.details[j].errorCode # "none" => 2 <= j
  BY <1>2, Indices, Zenon
<1> QED BY <1>1, <1>3, ErrorCodeFirst, Zenon

\* SmallBody: the bodies that stay below the cap are read to the end, a
\* longer page is not.
LEMMA SmallBody ==
  ASSUME NEW r
  PROVE  /\ r.size \in {300, 400, 900} => Parses(r)
         /\ r.size = 20000 => ~Parses(r)
BY DEF Parses, maxErrorBodyBytes

\* FcmGone: a 404 whose only detail is UNREGISTERED.
LEMMA FcmGone ==
  ASSUME NEW r, NEW x, x.errorCode = "UNREGISTERED",
         r.code = 404, r.size = 400, r.details = <<x>>
  PROVE  FcmStatus(r) = "unregistered"
<1>1. DOMAIN r.details = {1} /\ r.details[1] = x
  BY OneDetail
<1>2. Parses(r)
  BY SmallBody
<1>3. r.details[1].errorCode = "UNREGISTERED"
  BY <1>1, Zenon
<1>4. "UNREGISTERED" # "none"
  OBVIOUS
<1>5. errorCode(r) = "UNREGISTERED"
  BY <1>1, <1>2, <1>3, <1>4, CodeOfOne, Zenon
<1> QED BY <1>2, <1>5, FcmNamed, Zenon

\* FcmCorrupt: a 400 one of whose two details names the token's field.
LEMMA FcmCorrupt ==
  ASSUME NEW r, NEW x, NEW y,
         \/ "message.token" \in x.fieldViolations
         \/ "message.token" \in y.fieldViolations,
         r.code = 400, r.size = 900, r.details = <<x, y>>
  PROVE  FcmStatus(r) = "unregistered"
<1>1. DOMAIN r.details = {1, 2} /\ r.details[1] = x /\ r.details[2] = y
  BY TwoDetails
<1>2. Parses(r)
  BY SmallBody
<1>3. \E i \in DOMAIN r.details : "message.token" \in r.details[i].fieldViolations
  BY <1>1
<1>4. tokenFieldViolation(r)
  BY <1>2, <1>3 DEF tokenFieldViolation
<1> QED BY <1>4, FcmBadToken, Zenon

\* FcmOtherField: a 400 about another field.
LEMMA FcmOtherField ==
  ASSUME NEW r, NEW x, NEW y,
         "message.token" \notin x.fieldViolations,
         "message.token" \notin y.fieldViolations,
         x.errorCode = "none", y.errorCode = "INVALID_ARGUMENT",
         r.code = 400, r.size = 900, r.details = <<x, y>>
  PROVE  FcmStatus(r) = "error"
<1>1. DOMAIN r.details = {1, 2} /\ r.details[1] = x /\ r.details[2] = y
  BY TwoDetails
<1>2. Parses(r)
  BY SmallBody
<1>3. \A i \in {1, 2} : i = 1 \/ i = 2
  OBVIOUS
<1>4. ~tokenFieldViolation(r)
  BY <1>1, <1>3, Zenon DEF tokenFieldViolation
<1>5. "INVALID_ARGUMENT" # "none" /\ "INVALID_ARGUMENT" # "UNREGISTERED"
  OBVIOUS
<1>6. errorCode(r) = "INVALID_ARGUMENT"
  BY <1>1, <1>2, <1>5, CodeOfSecond, Zenon
<1>7. 400 \in Nat /\ 400 >= 300
  OBVIOUS
<1> QED BY <1>4, <1>5, <1>6, <1>7, FcmRefusal, Zenon

\* FcmNoDetails: a refusal without details, whether or not it is JSON.
LEMMA FcmNoDetails ==
  ASSUME NEW r, r.code \in {502, 503}, r.size \in {300, 20000},
         r.status \in {"none", "UNAVAILABLE"}, r.details = << >>
  PROVE  FcmStatus(r) = "error"
<1>1. DOMAIN r.details = {}
  OBVIOUS
<1>2. ~tokenFieldViolation(r)
  BY <1>1 DEF tokenFieldViolation
<1>3. errorCode(r) # "UNREGISTERED"
  <2>1. Parses(r) => errorCode(r) = r.status
    BY <1>1, ErrorCodeNone
  <2>2. ~Parses(r) => errorCode(r) = "none"
    BY ErrorCodeCut
  <2> QED BY <2>1, <2>2
<1> QED BY <1>2, <1>3, FcmRefusal

\* FcmMeaning: sendOne reads a reply of FCM as unregistered exactly when
\* the token is dead, as delivered exactly when the service took the
\* message.
LEMMA FcmMeaning ==
  ASSUME NEW d \in BOOLEAN, NEW r \in FcmReplies(d)
  PROVE  /\ r.from = "fcm"
         /\ FcmStatus(r) \in SendStatuses
         /\ FcmStatus(r) = "unregistered" <=> d
         /\ FcmStatus(r) = "delivered" <=> r.code < 300
<1>1. ASSUME r = FcmReply(200, 100, "none", << >>)
      PROVE  r.from = "fcm" /\ r.code = 200 /\ FcmStatus(r) = "delivered"
  <2>1. r.from = "fcm" /\ r.code = 200
    BY <1>1 DEF FcmReply
  <2> QED BY <2>1, FcmTaken
<1>2. ASSUME r = FcmReply(503, 300, "UNAVAILABLE", << >>)
      PROVE  r.from = "fcm" /\ r.code = 503 /\ FcmStatus(r) = "error"
  <2>1. /\ r.from = "fcm" /\ r.code = 503 /\ r.size = 300
        /\ r.status = "UNAVAILABLE" /\ r.details = << >>
    BY <1>2 DEF FcmReply
  <2> QED BY <2>1, FcmNoDetails
<1>3. ASSUME r = FcmReply(502, 20000, "none", << >>)
      PROVE  r.from = "fcm" /\ r.code = 502 /\ FcmStatus(r) = "error"
  <2>1. /\ r.from = "fcm" /\ r.code = 502 /\ r.size = 20000
        /\ r.status = "none" /\ r.details = << >>
    BY <1>3 DEF FcmReply
  <2> QED BY <2>1, FcmNoDetails
<1>4. ASSUME NEW x, NEW y, r = FcmReply(400, 900, "INVALID_ARGUMENT", <<x, y>>)
      PROVE  /\ r.from = "fcm" /\ r.code = 400 /\ r.size = 900
             /\ r.details = <<x, y>>
  BY <1>4 DEF FcmReply
<1>5. ASSUME NEW x, r = FcmReply(404, 400, "NOT_FOUND", <<x>>)
      PROVE  r.from = "fcm" /\ r.code = 404 /\ r.size = 400 /\ r.details = <<x>>
  BY <1>5 DEF FcmReply
<1>6. CASE d
  <2>1. \/ r = FcmReply(404, 400, "NOT_FOUND", <<Detail("UNREGISTERED", {})>>)
        \/ r = FcmReply(400, 900, "INVALID_ARGUMENT",
                       <<Detail("INVALID_ARGUMENT", {}),
                         Detail("none", {"message.token"})>>)
        \/ r = FcmReply(400, 900, "INVALID_ARGUMENT",
                       <<Detail("none", {"message.token"}),
                         Detail("INVALID_ARGUMENT", {})>>)
    BY <1>6 DEF FcmReplies
  <2> DEFINE gone == Detail("UNREGISTERED", {})
             token == Detail("none", {"message.token"})
             other == Detail("INVALID_ARGUMENT", {})
  <2>2. gone.errorCode = "UNREGISTERED" /\ "message.token" \in token.fieldViolations
    BY DEF Detail
  <2> HIDE DEF gone, token, other
  <2>3. \/ r = FcmReply(404, 400, "NOT_FOUND", <<gone>>)
        \/ r = FcmReply(400, 900, "INVALID_ARGUMENT", <<other, token>>)
        \/ r = FcmReply(400, 900, "INVALID_ARGUMENT", <<token, other>>)
    BY <2>1, Zenon DEF gone, token, other
  <2>4. /\ FcmStatus(r) = "unregistered"
        /\ r.from = "fcm" /\ r.code \in {400, 404}
    <3>1. ASSUME r = FcmReply(404, 400, "NOT_FOUND", <<gone>>)
          PROVE  FcmStatus(r) = "unregistered"
      BY <1>5, <2>2, <3>1, FcmGone
    <3>2. ASSUME r = FcmReply(400, 900, "INVALID_ARGUMENT", <<other, token>>)
          PROVE  FcmStatus(r) = "unregistered"
      BY <1>4, <2>2, <3>2, FcmCorrupt
    <3>3. ASSUME r = FcmReply(400, 900, "INVALID_ARGUMENT", <<token, other>>)
          PROVE  FcmStatus(r) = "unregistered"
      BY <1>4, <2>2, <3>3, FcmCorrupt
    <3> QED BY <1>4, <1>5, <2>3, <3>1, <3>2, <3>3
  <2> QED BY <1>6, <2>4 DEF SendStatuses
<1>7. CASE ~d
  <2> DEFINE data == Detail("none", {"message.data"})
             other == Detail("INVALID_ARGUMENT", {})
  <2>1. /\ "message.token" \notin data.fieldViolations
        /\ "message.token" \notin other.fieldViolations
        /\ data.errorCode = "none" /\ other.errorCode = "INVALID_ARGUMENT"
    BY DEF Detail
  <2>2. \/ r = FcmReply(200, 100, "none", << >>)
        \/ r = FcmReply(400, 900, "INVALID_ARGUMENT", <<data, other>>)
        \/ r = FcmReply(503, 300, "UNAVAILABLE", << >>)
        \/ r = FcmReply(502, 20000, "none", << >>)
    BY <1>7 DEF FcmReplies
  <2> HIDE DEF data, other
  <2>3. ASSUME r = FcmReply(400, 900, "INVALID_ARGUMENT", <<data, other>>)
        PROVE  r.from = "fcm" /\ r.code = 400 /\ FcmStatus(r) = "error"
    BY <1>4, <2>1, <2>3, FcmOtherField
  <2>4. /\ r.from = "fcm"
        /\ \/ r.code = 200 /\ FcmStatus(r) = "delivered"
           \/ r.code \in {400, 502, 503} /\ FcmStatus(r) = "error"
    BY <1>1, <1>2, <1>3, <2>2, <2>3
  <2> QED BY <1>7, <2>4 DEF SendStatuses
<1> QED BY <1>6, <1>7

-----------------------------------------------------------------------------
(* Both.                                                                   *)

\* ReplyMeaning: whatever a provider replies to a message, the sender reads
\* it as delivered exactly when the provider took the message and as
\* unregistered exactly when it called the token dead, and APNs has nothing
\* to say against the headers.
THEOREM ReplyMeaning ==
  ASSUME NEW m \in [platform : Platforms, kind : Kinds], NEW d \in BOOLEAN,
         NEW r \in Replies(m, d)
  PROVE  /\ r.from \in {"apns", "fcm"}
         /\ SendStatus(r) \in SendStatuses
         /\ SendStatus(r) = "unregistered" <=> d
         /\ SendStatus(r) = "delivered" <=> Accepts(r)
         /\ r.from = "apns" => r.reason # "BadTopic"
<1>1. CASE m.platform = "ios"
  <2>1. WellFormed(Notification(m.kind))
    BY FitsKind
  <2>2. r \in ApnsReplies(Notification(m.kind), d)
    BY <1>1 DEF Replies
  <2> QED BY <2>1, <2>2, ApnsMeaning DEF SendStatus, Accepts
<1>2. CASE m.platform # "ios"
  <2>1. r \in FcmReplies(d)
    BY <1>2 DEF Replies
  <2> QED BY <2>1, FcmMeaning DEF SendStatus, Accepts
<1> QED BY <1>1, <1>2
=============================================================================
