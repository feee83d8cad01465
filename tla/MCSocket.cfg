\* Two threads with two sockets and one, and fewer descriptors than sockets.
CONSTANTS
  t1 = t1
  t2 = t2
  s1 = s1
  s2 = s2
  s3 = s3
  Sock = {s1, s2, s3}
  User = {t1, t2}
  Sched = t1
  UserOf <- TwoUsers
  Descriptor = {d0, d1}
  Closed = Closed
  Condition <- Conditions
  Wanted <- WantedTypes
  Switched = {s3}
SPECIFICATION Spec
INVARIANTS TypeOK OwnDescriptor NoDescriptorLeak PolledIsOwn ReportIsTrue
PROPERTIES HeadServed
