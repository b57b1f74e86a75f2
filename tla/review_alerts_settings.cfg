CONSTANTS
  r1 = r1
  r2 = r2
  chat = chat
  hook = hook
  discord = discord
  https = https
  None = None
  Reviews = {r1, r2}
  MaxRevision = 1
  Destinations = {chat}
  Urls = {discord, https}
  ChatUrls = {discord}
  FirstUrl <- ChatOnly
  Linkless = {r2}
  Ratings = {"mid"}
  MaxAttempts = 2
  ChatSends = 1
  MaxCrashes = 1
  MaxChanges = 1
SPECIFICATION Spec
INVARIANTS AttemptsAreTrue
PROPERTIES RevokedIsNotSent DebtSettles
