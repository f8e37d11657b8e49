SPECIFICATION Spec
CONSTANTS
  a = a  b = b
  Langs = {"go", "js", "python"}
  Topics = {a, b}
  Initial = {}
  MaxLinks = 2  MaxCalls = 2
  RouteChoices <- MCRouteChoices
  RetryAfter <- MCRetryAfter
  Grace = 1
  MailTTL = 3
  KeepFor = {1, 2}
  MaxMails = 1  MaxReplays = 1  MaxMailClock = 2  MaxMailCrashes = 1
  Boxes = {"A", "B"}
  Locals = {"l"}
  Strangers <- MCStrangers
  MailSettings <- MCMailSettings
  OrgSendsPerDay = 1
  SmtpAuthenticated = TRUE
  MaxRecipients = 2
  MaxMailDay = 1  MaxStored = 2  MaxOps = 2
  Pollers = {"p"}
  MaxLetters = 3  LetterPage = 1  MaxWaiters = 1
INVARIANTS
  DeliversOnce
  
  PagesHold
PROPERTIES
  SocketKeeps
  AllEnd
CHECK_DEADLOCK FALSE
