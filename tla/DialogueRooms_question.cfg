CONSTANTS
  t1 = t1
  t2 = t2
  t3 = t3
  p1 = p1
  p2 = p2
  Requests = {t1, t2, t3}
  Order <- Both
  Rooms <- MCRooms
  HistoryLimit = 5
  NoProgressLimit = 2
  SameSpeakerLimit = 2
  MaxFaults = 1
SPECIFICATION Spec
CHECK_DEADLOCK FALSE
INVARIANTS QuestionIsHeard
