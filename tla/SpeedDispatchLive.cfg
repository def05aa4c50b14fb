CONSTANTS
  t1 = t1
  t2 = t2
  c1 = c1
  c2 = c2
  c3 = c3
  r1 = r1
  r2 = r2
  None = None
  Threads = {t1, t2}
  Fds = {c1, c2}
  Roads = {r1}
  MaxTickets = 1
  MaxAccepts = 3
SPECIFICATION FairSpec
PROPERTY ThreadsReturn
PROPERTY PendingTicketIsSent
