------------------------------- MODULE Alerts -------------------------------
(* Requests that fail, and the mails about them (middleware/request_logging.py,*)
(* services/notifications.py, routers/logs.py).  The middleware of one backend *)
(* process records every request, and a failed one a second time with its      *)
(* trace; an alert to the staff of the failing request's organization and of   *)
(* the platform is sent by a task beside the request, at most one per window   *)
(* for a kind of error and a route.  A new ticket or ingestion request is      *)
(* mailed to the developers before its answer.                                 *)
EXTENDS Naturals, FiniteSets

CONSTANTS Request, Route, Org,
          NoOrg,     \* the organization of an anonymous request
          Platforms, \* values of notify_platform_org_id; NoOrg when it is not set
          Window,    \* notify_errors_throttle_seconds
          MaxClock

VARIABLES clock,
          platform,  \* notify_platform_org_id
          request,   \* what each request does
          alert,     \* its alert
          lastSent,  \* _error_alert_last_sent
          attempts   \* alerts the throttle let pass, with their time

alertsVars == <<clock, platform, request, alert, lastSent, attempts>>
setting == <<clock, platform>>
sending == <<lastSent, attempts>>

Kinds == {"call", "turn", "widget", "test", "ticket"}
Waiting == {"test", "ticket"}  \* for their mail
AnyRoute == CHOOSE x \in Route : TRUE
NoRequest == [at |-> "idle", kind |-> "call", route |-> AnyRoute, org |-> NoOrg]
NoAlert == [at |-> "none", kind |-> "call", route |-> AnyRoute, org |-> NoOrg, to |-> {}]
Never == MaxClock + Window

AlertsTypeOK ==
  /\ clock \in 0..MaxClock
  /\ \A r \in Request :
       /\ request[r].at \in {"idle", "handler", "inserted", "error", "spawn", "mail", "access", "over"}
       /\ request[r].kind \in Kinds /\ request[r].org \in Org \cup {NoOrg}
       /\ alert[r].at \in {"none", "new", "staff", "platform", "send", "over"}
       /\ alert[r].to \subseteq Org
  /\ lastSent \in [Route -> 0..MaxClock \cup {Never}]

AlertsInit ==
  /\ clock = 0
  /\ platform \in Platforms
  /\ request = [r \in Request |-> NoRequest]
  /\ alert = [r \in Request |-> NoAlert]
  /\ lastSent = [x \in Route |-> Never]
  /\ attempts = {}

At(r, place) == request[r].at = place
GoOn(r, place) == request' = [request EXCEPT ![r].at = place]
Release(r) == request' = [request EXCEPT ![r] = [NoRequest EXCEPT !.at = "access"]]
Over(r) == request' = [request EXCEPT ![r] = [NoRequest EXCEPT !.at = "over"]]
New(r) == alert' = [alert EXCEPT ![r] = [at |-> "new", kind |-> request[r].kind, route |-> request[r].route,
                                         org |-> request[r].org, to |-> {}]]

-----------------------------------------------------------------------------
(* The request.                                                            *)

\* A request comes in; an ingestion request is like a ticket.  The route is the template of
\* its path, or the corpus of the widget it is about, together with the type of the error it
\* may meet.
Begin(r) ==
  /\ At(r, "idle")
  /\ \E k \in Kinds, x \in Route, o \in Org \cup {NoOrg} :
       /\ (k = "ticket" => o # NoOrg)
       /\ request' = [request EXCEPT ![r] = [at |-> "handler", kind |-> k, route |-> x, org |-> o]]
  /\ UNCHANGED <<setting, alert, sending>>

\* The handler answers; create_ticket and create_ingestion_request have inserted their row,
\* send_test_error_alert has nothing but its mail to do, log_widget_turn may report a failed
\* turn, log_widget_error always reports one.
Succeed(r) ==
  /\ At(r, "handler")
  /\ CASE request[r].kind \in Waiting -> GoOn(r, "inserted")
       [] request[r].kind = "widget"  -> GoOn(r, "error")
       [] request[r].kind = "turn"    -> GoOn(r, "spawn") \/ Release(r)
       [] OTHER                       -> Release(r)
  /\ UNCHANGED <<setting, alert, sending>>

\* It raises; the middleware catches it.
Raise(r) ==
  /\ At(r, "handler")
  /\ request' = [request EXCEPT ![r].at = "error", ![r].kind = "call"]
  /\ UNCHANGED <<setting, alert, sending>>

\* persist_error_log: the row itself is left out; it never raises.
PersistError(r) ==
  /\ At(r, "error")
  /\ GoOn(r, "spawn")
  /\ UNCHANGED <<setting, alert, sending>>

\* Mutant: the middleware awaits the mail.
SpawnAndWait(r) ==
  /\ At(r, "spawn")
  /\ New(r)
  /\ GoOn(r, "mail")
  /\ UNCHANGED <<setting, sending>>

\* schedule_error_alert, schedule_widget_failure_alert: a task of its own.
Spawn(r) ==
  /\ At(r, "spawn")
  /\ New(r)
  /\ Release(r)
  /\ UNCHANGED <<setting, sending>>

\* notify_developers_new_ticket, notify_developers_new_ingestion, the test alert: in the request.
Notify(r) ==
  /\ At(r, "inserted")
  /\ New(r)
  /\ GoOn(r, "mail")
  /\ UNCHANGED <<setting, sending>>

Notified(r) ==
  /\ At(r, "mail") /\ alert[r].at = "over"
  /\ Release(r)
  /\ UNCHANGED <<setting, alert, sending>>

\* persist_http_request_log, in the same way; then the answer, or the exception, goes out.
PersistAccess(r) ==
  /\ At(r, "access")
  /\ Over(r)
  /\ UNCHANGED <<setting, alert, sending>>

\* The client goes away: the request is cancelled where it waits.
Cancel(r) ==
  /\ ~At(r, "idle") /\ ~At(r, "over")
  /\ Over(r)
  /\ alert' = IF At(r, "mail") THEN [alert EXCEPT ![r] = [NoAlert EXCEPT !.at = "over"]] ELSE alert
  /\ UNCHANGED <<setting, sending>>

-----------------------------------------------------------------------------
(* Its alert.                                                              *)

Step(r, place) == alert' = [alert EXCEPT ![r].at = place]
Ended(r) == alert' = [alert EXCEPT ![r] = [NoAlert EXCEPT !.at = "over"]]

\* _error_alert_throttled: the time is stored before the mail is tried.
Throttled(r) ==
  LET last == lastSent[alert[r].route] IN last # Never /\ clock - last < Window

Passed(r) == attempts' = attempts \cup {[of |-> r, route |-> alert[r].route, time |-> clock]}

\* Mutant: the time of an alert is not stored.
ThrottleNothing(r) ==
  /\ alert[r].at = "new"
  /\ IF Throttled(r) THEN Ended(r) /\ UNCHANGED attempts ELSE Step(r, "staff") /\ Passed(r)
  /\ UNCHANGED <<setting, request, lastSent>>

\* notify_error_admins_developers, notify_widget_failure; a test is always tried.
Throttle(r) ==
  /\ alert[r].at = "new"
  /\ IF alert[r].kind \in Waiting
     THEN Step(r, "staff") /\ UNCHANGED <<lastSent, attempts>>
     ELSE IF Throttled(r)
          THEN Ended(r) /\ UNCHANGED <<lastSent, attempts>>
          ELSE Step(r, "staff") /\ lastSent' = [lastSent EXCEPT ![alert[r].route] = clock] /\ Passed(r)
  /\ UNCHANGED <<setting, request>>

\* fetch_role_emails.
Staff(o) == IF o = NoOrg THEN Org ELSE {o}

\* Mutant: an error of no organization goes to everybody.
StaffAnyway(r) == Staff(alert[r].org)

\* _error_alert_recipients: first the organization's; without one, the platform's, and
\* everybody's when no platform is configured.
OwnStaff(r) == IF alert[r].org = NoOrg /\ platform # NoOrg THEN {} ELSE Staff(alert[r].org)

\* For a ticket or an ingestion request fetch_developer_emails of its organization.
Recipients(r) ==
  /\ alert[r].at = "staff"
  /\ alert' = IF alert[r].kind = "ticket"
              THEN [alert EXCEPT ![r].kind = "call", ![r].at = "send", ![r].to = Staff(alert[r].org)]
              ELSE [alert EXCEPT ![r].kind = "call", ![r].at = "platform", ![r].to = OwnStaff(r)]
  /\ UNCHANGED <<setting, request, sending>>

PlatformRecipients(r) ==
  /\ alert[r].at = "platform"
  /\ alert' = [alert EXCEPT ![r].at = "send", ![r].to = @ \cup (IF platform = NoOrg THEN {} ELSE Staff(platform))]
  /\ UNCHANGED <<setting, request, sending>>

\* A query fails: nobody is written to.
NoRecipients(r) ==
  /\ alert[r].at \in {"staff", "platform"}
  /\ Ended(r)
  /\ UNCHANGED <<setting, request, sending>>

\* SmtpMailSender.send, ZohoMailSender.send: one mail to all, or none; what arrives is left out.
SendMail(r) ==
  /\ alert[r].at = "send"
  /\ Ended(r)
  /\ UNCHANGED <<setting, request, sending>>

Clock ==
  /\ clock < MaxClock
  /\ clock' = clock + 1
  /\ UNCHANGED <<platform, request, alert, sending>>

RequestStep(r) ==
  \/ Succeed(r) \/ Raise(r) \/ PersistError(r) \/ Spawn(r) \/ Notify(r) \/ Notified(r) \/ PersistAccess(r)

AlertsNext ==
  \/ Clock
  \/ \E r \in Request :
       \/ Begin(r) \/ RequestStep(r) \/ Cancel(r)
       \/ Throttle(r) \/ Recipients(r) \/ PlatformRecipients(r) \/ NoRecipients(r) \/ SendMail(r)

AlertsSpec == AlertsInit /\ [][AlertsNext]_alertsVars /\ \A r \in Request : WF_alertsVars(RequestStep(r))

-----------------------------------------------------------------------------
(* Properties.                                                             *)

\* However many requests fail at once, two alerts for one kind of error and one route are a
\* window apart ("so a crash loop can't flood inboxes", notifications.py).
AlertsAreSpaced ==
  \A a, b \in attempts : a # b /\ a.route = b.route => a.time + Window <= b.time \/ b.time + Window <= a.time

\* With a platform organization, nobody outside it is written to about another
\* organization's request, nor about one of no organization ("otherwise one tenant's staff
\* would receive another tenant's traces").
MailsStayInside ==
  \A r \in Request : platform # NoOrg /\ alert[r].at = "send" => alert[r].to \subseteq {platform, alert[r].org}

RequestIsOver(r) == At(r, "idle") \/ At(r, "over") \/ request[r].kind \in Waiting

\* A failing request comes to its end whatever becomes of the mail about it, also when the mail
\* server never answers (request_logging.py; "without delaying the caller's response").  It may
\* be held up: without SMTP the sender signs in to Zoho on the event loop (zoho_mail.py
\* _get_access_token), which delays every request by at most the wait for a callback.
AnswersDoNotWait == \A r \in Request : []<>RequestIsOver(r)
=============================================================================
