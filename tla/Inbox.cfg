SPECIFICATION FairSpec
CONSTANTS
  text = text
  reply = reply
  note = note
  Msgs = {text, reply, note}
  RideAlongs = {note}
  Injectable = {text, note}
  Text = {text}
  SHUTDOWN = SHUTDOWN
  NONE = NONE
  Drivers = {"loop", "request"}
  MaxLag = 2
  MaxResets = 1
INVARIANTS QueueIsJournal
PROPERTIES TurnsStartInArrivalOrder RevokedIsFinal NotTwiceOnceDurable EveryMessageIsHandled
CHECK_DEADLOCK FALSE
