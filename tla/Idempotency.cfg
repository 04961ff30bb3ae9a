SPECIFICATION KeysSpec
CONSTANTS
  k1 = k1
  a1 = a1
  a2 = a2
  a3 = a3
  a4 = a4
  Key = {k1}
  Request = {"pay", "order"}
  Attempt = {a1, a2, a3, a4}
  NoAnswer = NoAnswer
  MaxFailures = 1
  MaxExpiries = 1
INVARIANTS
  RunAgainOnlyIfForgotten
  ReplaysAgree
PROPERTIES
  ImplementsAnswerOnce
CHECK_DEADLOCK FALSE
