SPECIFICATION Spec
CONSTANTS
  Tasks = {p, q}
  Platforms = {"linux", "atari", "msdos", "amiga"}
  Units = {0, 1}
  Texts = {a, b}
  Images = {x}
  Boot = boot
  Hosts = {h, k}
  None = None
INVARIANTS ReadsTrue MountedIsMapped SuccessIsTrue
SYMMETRY Symmetry
