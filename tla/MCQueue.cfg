\* Three consumers and four values; two consumers run out of memory in
\* wait_and_pop. A consumer waits for ever once all values are taken.
SPECIFICATION Spec
CONSTANTS
  Consumers = {c1, c2, c3}
  MaxPush = 4
  MaxThrows = 2
  c1 = c1
  c2 = c2
  c3 = c3
INVARIANT OnceInOrder
INVARIANT NoLostWakeup
CHECK_DEADLOCK FALSE
