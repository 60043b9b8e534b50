\* One user, two administrators; two requests to sign in; two roles and two pages.
CONSTANTS
  Parts = {"tenancy", "signin", "nav", "login"}
  Org = {o1}
  Account = {a1}
  User = {u1}
  Admin = {x1, x2}
  MaxOther = 1
  NoId = NoId
  Request = {q1, q2}
  otp_max_attempts = 1
  otp_max_resend_per_hour = 1
  MaxResends = 2
  MaxTroubles = 2
  r1 = r1
  r2 = r2
  Role <- Roles
  Defaults <- DefaultPages
  Page = {p1, p3}
  Restricted = {p3}
  Everywhere = {p1}
  Attempt = {t1, t2}
  login_max_failed_attempts = 1
  MaxMishaps = 2
SPECIFICATION Spec
INVARIANTS
  TypeOK
  RestrictedIsGranted
PROPERTIES
  DeletionsEnd
  PersonGetsIn
CHECK_DEADLOCK FALSE
