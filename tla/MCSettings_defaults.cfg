\* The file install-script.sh writes.
SPECIFICATION Spec
CONSTANTS
  Addresses = {"v4", "v6"}
  Values = {"v4", "v6", "name", "empty"}
  Counts = {0, 1, 2}
  Files <- Installer
INVARIANT DefaultsAccepted
CHECK_DEADLOCK FALSE
