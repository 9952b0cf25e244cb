SPECIFICATION Spec
CONSTANTS
  Browser = {b1, b2}
  User = {alice, bob}
  MaxLogins = 3
INVARIANT SignInStaysInItsBrowser
 
