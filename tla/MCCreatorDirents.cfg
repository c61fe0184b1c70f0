\* Two content paths, one metadata name, three mimetypes of which the third
\* new one exceeds the (scaled) uint16 limit, an item title that is empty
\* (the path is used) or sorts after every path, up to three calls, then
\* finish with any favicon and main path.  finishZimCreation is the last
\* call, so the states after it have no successor.
CONSTANTS
  Paths = {1, 2}
  MetaNames = {1}
  Mimes = {1, 2, 3}
  Titles = {0, 3}
  OctetStream = 2
  MimeLimit = 2
  MaxCalls = 3

SPECIFICATION Spec
CHECK_DEADLOCK FALSE

INVARIANT TypeOK
INVARIANT MimeRoundTrip
INVARIANT ItemsKept
INVARIANT RedirectToItemResolved
