SPECIFICATION SockSpec
CONSTANTS
  Request = {q1}
  MaxData = 2
INVARIANT NoUseAfterRelease
CHECK_DEADLOCK FALSE
