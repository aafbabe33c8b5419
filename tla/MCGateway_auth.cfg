SPECIFICATION Spec
CONSTANTS
  None = None
  tab1 = tab1
  tab2 = tab2
  cli1 = cli1
  cli2 = cli2
  web = web
  program = program
  u1 = u1
  admin = admin
  phone = phone
  mail = mail
  root = root
  Callers <- MCCallers
  Tabs <- MCTabs
  Browsers = {web, program}
  BrowserOf <- MCBrowserOf
  Users = {u1, admin}
  Admins = {admin}
  Logins = {phone, mail, root}
  Forms <- MCForms
  AdminForm <- MCAdminForm
  Tokens = {k1, k2, k3}
  Challenges = {x1}
  MaxFaults = 1
  MaxRequests = 3
  MaxOpen = 2
INVARIANTS TypeOK SessionOwner LogoutRevokes NoDeadCookie RefusedTokenSpent
PROPERTIES RotatesOnce VerifiesOnce
SYMMETRY Symmetry
CHECK_DEADLOCK FALSE
