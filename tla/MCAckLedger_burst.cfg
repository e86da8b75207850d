SPECIFICATION Spec
CONSTANTS
  Mail <- Mails
  Seat = {"w1", "mgr"}
  Watched = {}
  Text = {}
  From <- Froms
  To <- Tos
  Lane <- Lanes3
  AskOf <- Asks3
  Parked = {}
  Asks = {"first", "second"}
  NoAsk = "none"
  MaxCrash = 0
  MaxTyped = 0
INVARIANT OneRowPerFiling
