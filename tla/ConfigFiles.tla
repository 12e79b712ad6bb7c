---------------------------- MODULE ConfigFiles ----------------------------
(***************************************************************************)
(* What the configuration files can hold.  A file is missing, empty (just  *)
(* created or truncated), torn (cut somewhere inside the XML text) or      *)
(* holds one whole configuration.  The text itself is abstract: the only   *)
(* thing the readers of the base interface tell apart is whether           *)
(* PsmFloTestRegFile accepts it.                                           *)
(***************************************************************************)

EXTENDS Naturals

CONSTANTS
    Config,     \* whole configurations, as values
    Default,    \* the factory default file shipped with the firmware
    Missing, Empty, Torn,   \* the contents that are no configuration
    IoFaults    \* may an open, write or copy fail (full or worn flash)?

ASSUME ConfigFilesAssumption ==
    /\ Default \in Config
    /\ {Missing, Empty, Torn} \cap Config = {}
    /\ Missing # Empty /\ Missing # Torn /\ Empty # Torn
    /\ IoFaults \in BOOLEAN

Content == Config \cup {Missing, Empty, Torn}

\* PsmFloTestRegFile: the text parses.  (Its only other check, a file size
\* of zero, is made by the caller before; an empty text does not parse.)
Intact(file) == file \in Config

\* backup_file gives up before it touches the backup when the source cannot
\* be opened, or has no byte to map (mmap refuses a length of zero).
Copyable(file) == file \notin {Missing, Empty}

=============================================================================
