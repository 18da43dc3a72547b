-------------------------------- MODULE Types --------------------------------
(***************************************************************************)
(* src/src/types.rs: LockType and its conversions to and from the integers *)
(* that fcntl() takes and returns. A request and a reply carry a LockType; *)
(* the kernel's lock is one of the integers. Of LockParams and flock only  *)
(* the type is modelled: the code copies the range and the pid, field by   *)
(* field, and never looks at them.                                         *)
(***************************************************************************)
EXTENDS Integers

(* fcntl.h, on Linux.                                                      *)
F_RDLCK == 0
F_WRLCK == 1
F_UNLCK == 2

LockTypes == {"Read", "Write", "Unlock"}

(* `as i16`, and back to i32 with its sign.                                *)
I16(n) == ((n + 2^15) % 2^16) - 2^15

(* From<LockParams> for flock, by From<LockType> for i16.                  *)
Flock(lock_type) ==
  CASE lock_type = "Read"   -> I16(F_RDLCK)
    [] lock_type = "Write"  -> I16(F_WRLCK)
    [] lock_type = "Unlock" -> I16(F_UNLCK)

(* Two arms of the match mixed up.                                         *)
TryFrom_Mixed(l_type) ==
  CASE l_type = F_RDLCK -> "Write"
    [] l_type = F_WRLCK -> "Read"
    [] l_type = F_UNLCK -> "Unlock"
    [] OTHER            -> "InvalidInput"

(* TryFrom<flock> for LockParams, by TryFrom<i32> for LockType.            *)
TryFrom(l_type) ==
  CASE l_type = F_RDLCK -> "Read"
    [] l_type = F_WRLCK -> "Write"
    [] l_type = F_UNLCK -> "Unlock"
    [] OTHER            -> "InvalidInput"
=============================================================================
