SPECIFICATION Spec
CONSTANTS
  IPs <- MCIPs
  Hosts <- MCHosts
  EditorHosts <- MCEditorHosts
  Unprintable <- MCUnprintable
  IntMod = 64
  MaxPort = 7
  Answers <- MCAnswers
  MaxBouncers = 2
INVARIANTS
  TypeOK
  LoadedIsEntered
  RejectedOnlyFor
  OnlyIdntIsSkipped
CHECK_DEADLOCK FALSE
