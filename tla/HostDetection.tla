--------------------------- MODULE HostDetection ---------------------------
(***************************************************************************)
(* The platform names of scripts/builddeps.py: detect_openssl_platform,   *)
(* run once at import for the openssl_platform of the OpenSSL templates,  *)
(* and get_host_argument, called by build_curl on macOS for --host.  Both *)
(* read platform.system() and platform.machine() and raise                *)
(* UnsupportedPlatformError for a pair they do not know.                  *)
(***************************************************************************)
EXTENDS Sequences, Integers

LOCAL SX == INSTANCE SequencesExt

Unsupported == "UnsupportedPlatformError"

\* platform.machine(), the uname -m of the host (the PROCESSOR_ARCHITECTURE
\* on Windows): what each system reports on the processors it runs on.
Machines(system) ==
    CASE system = "Linux"   -> {"x86_64", "aarch64", "armv7l"}
      [] system = "Darwin"  -> {"arm64", "x86_64"}
      [] system = "Windows" -> {"AMD64", "ARM64"}

\* str.endswith on a string.
EndsWith(s, x) == Len(x) <= Len(s) /\ SubSeq(s, Len(s) - Len(x) + 1, Len(s)) = x

\* detect_openssl_platform(): the OpenSSL Configure target of the host.
DetectOpensslPlatform(system, machine) ==
    CASE system = "Linux" ->
           IF machine = "x86_64" THEN "linux-x86_64"
           ELSE IF SX!IsPrefix("arm", machine)
                  THEN IF EndsWith(machine, "64") THEN "linux-aarch64" ELSE "linux-armv4"
           ELSE Unsupported
      [] system = "Darwin" ->
           CASE machine = "arm64"  -> "darwin64-arm64-cc"
             [] machine = "x86_64" -> "darwin64-x86_64-cc"
             [] OTHER              -> Unsupported
      [] system = "Windows" -> "VC-WIN64A"
      [] OTHER -> Unsupported

\* Mutant: get_host_argument knows only Apple silicon.
GetHostArgumentArmOnly(system, machine) ==
    IF system = "Darwin" /\ machine = "arm64" THEN "arm64-apple-darwin" ELSE Unsupported

\* get_host_argument(): the --host of curl's configure on macOS.
GetHostArgument(system, machine) ==
    CASE system = "Darwin" /\ machine = "arm64"  -> "arm64-apple-darwin"
      [] system = "Darwin" /\ machine = "x86_64" -> "x86_64-apple-darwin"
      [] OTHER                                   -> Unsupported

=============================================================================
