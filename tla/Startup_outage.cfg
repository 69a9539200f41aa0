\* The parity check meets an unreachable database.
SPECIFICATION Spec
CONSTANTS
    Languages = {"english", "spanish"}
    MaxCancels = 0
PROPERTY OutageDoesNotStopBoot
