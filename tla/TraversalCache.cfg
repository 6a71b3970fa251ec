\* Four files, three directories under two names, and room for four entries of
\* the five of the two names and for three of the four cursors.
SPECIFICATION Spec
CONSTANTS
  f1 = f1
  f2 = f2
  f3 = f3
  f4 = f4
  src = src
  lib = lib
  old = old
  new = new
  other = other
  File = {f1, f2, f3, f4}
  Key = {src, lib}
  Identity = {old, new, other}
  None = None
  KeyOf <- MCKeyOf
  IdOf <- MCIdOf
  Content <- MCContent
  Batch = {0, 1, 2}
  EntryLimit = 4
  CursorLimit = 3
INVARIANTS
  CacheSound
PROPERTIES
  ImplementsStream
