CONSTANTS
  s1 = s1
  Session = {s1}
  Task = {t1, t2}
  SessionOf <- OneSession
  MaxTurns = 2
  MaxNotes = 2
  MaxCrashes = 1
SPECIFICATION Spec
INVARIANTS TypeOK GuardedTurnsSerial TurnsInOrder RunningIsLive GuardScoped
PROPERTIES OthersKeepRunning TurnEnds
