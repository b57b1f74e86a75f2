CONSTANTS
  r1 = r1
  r2 = r2
  chat = chat
  hook = hook
  discord = discord
  https = https
  None = None
  Reviews = {r1}
  MaxRevision = 2
  Destinations = {chat, hook}
  Urls = {discord, https}
  ChatUrls = {discord}
  FirstUrl <- ChatAndHook
  Linkless = {}
  Ratings = {"low", "high"}
  MaxAttempts = 2
  ChatSends = 1
  MaxCrashes = 0
  MaxChanges = 0
SPECIFICATION Spec
INVARIANTS AckIsEarned
PROPERTIES SettledIsFinal
