SPECIFICATION Spec
CONSTANTS
  Requests = {r1, r2, r3}
  Sessions = {default, s1, s2}
  Default = default
  Uploads <- MCUploads
SYMMETRY Interchangeable
INVARIANT FolderIsWhatWasSent
PROPERTY RefusedForAReason
PROPERTY LaunchLoadsWhatWasSent
CHECK_DEADLOCK FALSE
