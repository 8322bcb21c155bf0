SPECIFICATION Spec
CONSTANTS
  Browsers = {b1, b2}
  Usernames <- MCUsernames
  Passwords = {"old", "new"}
  MaxAge = 2
  MaxTime = 4
  None = None
INVARIANT PageIsEntitled LoginLasts
