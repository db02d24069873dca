-------------------------------- MODULE Launch --------------------------------
(***************************************************************************)
(* Where the options of a run come from and where they go: defaults, the   *)
(* file config.ini, the command line, the settings dialog (main.c,         *)
(* config.c, settings_clicked and settings_save of the frontends), and the *)
(* SDK library that follows from them and how it is checked (sdk-loader.c). *)
(*                                                                         *)
(* GTK keeps one window per session: a launch while one runs hands over to *)
(* it.  Options that are NULL and options that are empty are read alike.    *)
(***************************************************************************)
EXTENDS Naturals

CONSTANTS
    Path,           \* SDK paths
    DefaultPath,    \* DEFAULT_SDK_PATH and TVT_DEFAULT_SDK_DIR
    Environment,    \* the value of TVT_SDK_PATH, or Empty
    Address,        \* bind addresses
    Timeout,        \* timeouts considered, in ms
    Empty,          \* NULL, the empty string, a key that is missing
    NotGiven,       \* an option that is not on the command line
    LoaderPath,     \* libdvrnetsdk.so wherever the dynamic loader finds it
    NoFile          \* config.ini is missing or cannot be read

ASSUME LaunchAssumption ==
    /\ DefaultPath \in Path
    /\ Environment \in Path \cup {Empty}
    /\ Empty \notin Path \cup Address \cup Nat
    /\ NotGiven \notin Path \cup Address \cup {Empty}
    /\ LoaderPath \notin Path \cup {Empty}
    /\ Timeout \subseteq Nat

MinTimeout == 250
MaxTimeout == 30000
DefaultTimeout == 1500

\* The options of a run; a file holds whatever was written by hand.
Options == [sdk: Path \cup {Empty}, bind: Address \cup {Empty}, timeout: Nat]
Stored == [sdk: Path \cup {Empty}, bind: Address \cup {Empty}, timeout: Timeout \cup {Empty}]

\* Options on the command line: a timeout of 0 is none.
CommandLine == [sdk: Path \cup {Empty, NotGiven}, bind: Address \cup {Empty, NotGiven},
                timeout: Timeout \cup {0}]

NoOptions == [sdk |-> NotGiven, bind |-> NotGiven, timeout |-> 0]

Status == {"none", "refused", "checked", "tried", "ended", "window"}
Launches == [cli: CommandLine, status: Status, opened: Path \cup {Empty, LoaderPath}]
SdkCheck == [step: {"none", "open", "symbols", "init", "cleanup", "close"},
             handles: Nat, initialised: BOOLEAN]

VARIABLES
    file,       \* config.ini
    running,    \* whether a window is open
    options,    \* the options in use in that window
    last,       \* the latest launch: command line, outcome, library opened
    saved,      \* history: what the dialog saved last
    library     \* a check of the SDK: step, dlopen handles, library initialised

vars == <<file, running, options, last, saved, library>>

-----------------------------------------------------------------------------
(* config.c                                                                *)

Defaults == [sdk |-> DefaultPath, bind |-> Empty, timeout |-> DefaultTimeout]

UsableTimeout(t) == t # Empty /\ t >= MinTimeout /\ t <= MaxTimeout

AnyNumber(stored) ==                                \* (mutant)
    [sdk |-> IF stored.sdk # Empty THEN stored.sdk ELSE DefaultPath,
     bind |-> stored.bind,
     timeout |-> IF stored.timeout # Empty THEN stored.timeout ELSE DefaultTimeout]
KeepBind(stored) ==                                 \* (mutant)
    [sdk |-> IF stored.sdk # Empty THEN stored.sdk ELSE DefaultPath,
     bind |-> Empty,
     timeout |-> IF UsableTimeout(stored.timeout) THEN stored.timeout ELSE DefaultTimeout]
FromFile(stored) ==
    [sdk |-> IF stored.sdk # Empty THEN stored.sdk ELSE DefaultPath,
     bind |-> stored.bind,
     timeout |-> IF UsableTimeout(stored.timeout) THEN stored.timeout ELSE DefaultTimeout]

Load == IF file = NoFile THEN Defaults ELSE FromFile(file)

-----------------------------------------------------------------------------
(* main                                                                    *)

Unconditionally(loaded, cli) ==                     \* (mutant)
    [sdk |-> cli.sdk, bind |-> cli.bind,
     timeout |-> IF cli.timeout # 0 THEN cli.timeout ELSE loaded.timeout]
Override(loaded, cli) ==
    [sdk |-> IF cli.sdk # NotGiven THEN cli.sdk ELSE loaded.sdk,
     bind |-> IF cli.bind # NotGiven THEN cli.bind ELSE loaded.bind,
     timeout |-> IF cli.timeout # 0 THEN cli.timeout ELSE loaded.timeout]

Acceptable(o) == o.timeout >= MinTimeout /\ o.timeout <= MaxTimeout

\* The library the SDK check opens.
Resolve(sdk) ==
    LET configured == IF sdk # Empty THEN sdk ELSE Environment
    IN  IF configured # Empty THEN {configured} ELSE {DefaultPath, LoaderPath}

Outcome(cli, status, opened) == [cli |-> cli, status |-> status, opened |-> opened]

NotLaunched == Outcome(NoOptions, "none", Empty)

NoCheck == [step |-> "none", handles |-> 0, initialised |-> FALSE]

Init ==
    /\ file \in Stored \cup {NoFile}
    /\ running = FALSE
    /\ options = Defaults
    /\ last = NotLaunched
    /\ saved = NoFile
    /\ library = NoCheck

\* A launch is refused when the timeout is out of range, wherever it is from.
Refuse(cli) ==
    /\ ~Acceptable(Override(Load, cli))
    /\ last' = Outcome(cli, "refused", Empty)
    /\ UNCHANGED <<file, running, options, saved, library>>

CheckSdk(cli) ==
    /\ Acceptable(Override(Load, cli))
    /\ \E path \in Resolve(Override(Load, cli).sdk) : last' = Outcome(cli, "checked", path)
    /\ library' = [library EXCEPT !.step = "open"]
    /\ UNCHANGED <<file, running, options, saved>>

\* --version and --discover-only end without a window.
NoWindow(cli) ==
    /\ Acceptable(Override(Load, cli))
    /\ last' = Outcome(cli, "ended", Empty)
    /\ UNCHANGED <<file, running, options, saved, library>>

OpenWindow(cli) ==
    /\ Acceptable(Override(Load, cli))
    /\ ~running
    /\ running' = TRUE
    /\ options' = Override(Load, cli)
    /\ last' = Outcome(cli, "window", Empty)
    /\ UNCHANGED <<file, saved, library>>

\* activate finds the window there and presents it.
HandOver(cli) ==
    /\ Acceptable(Override(Load, cli))
    /\ running
    /\ last' = Outcome(cli, "window", Empty)
    /\ UNCHANGED <<file, running, options, saved, library>>

-----------------------------------------------------------------------------
(* The settings dialog                                                     *)

\* What the spin button makes of a number.
AsTyped(t) == t                                     \* (mutant)
Clamped(t) == IF t < MinTimeout THEN MinTimeout ELSE IF t > MaxTimeout THEN MaxTimeout ELSE t

\* tvt_app_options_save_file replaces the file as a whole, or cannot and
\* leaves it as it is.
SaveFile(o) ==
    \/ file' = o /\ saved' = o
    \/ UNCHANGED <<file, saved>>

\* The dialog shows the options in use; saving takes over its fields and
\* writes them all.
SettingsSave ==
    /\ running
    /\ \E sdk \in Path \cup {Empty}, bind \in Address \cup {Empty},
          typed \in Timeout \cup {options.timeout} :
        LET new == [sdk |-> sdk, bind |-> bind, timeout |-> Clamped(typed)] IN
        /\ options' = new
        /\ SaveFile(new)
    /\ last' = NotLaunched
    /\ UNCHANGED <<running, library>>

\* "Check SDK" takes the path as typed, saved or not.
CheckSdkClicked ==
    /\ running
    /\ \E typed \in Path \cup {Empty} : \E path \in Resolve(typed) :
        last' = Outcome(NoOptions, "tried", path)
    /\ library' = [library EXCEPT !.step = "open"]
    /\ UNCHANGED <<file, running, options, saved>>

Quit ==
    /\ running
    /\ running' = FALSE
    /\ options' = Defaults
    /\ last' = NotLaunched
    /\ UNCHANGED <<file, saved, library>>

-----------------------------------------------------------------------------
(* tvt_sdk_is_available; no other callback of its process runs meanwhile   *)

SdkGoto(from, to) == library.step = from /\ library' = [library EXCEPT !.step = to]

\* sdk_close: every way out of a check.
SdkClose ==
    /\ library.step = "close"
    /\ library' = [library EXCEPT !.step = "none", !.handles = @ - 1]

SdkOpen ==
    \/ SdkGoto("open", "none")
    \/ /\ library.step = "open"
       /\ library' = [library EXCEPT !.step = "symbols", !.handles = @ + 1]

\* A library that lacks what it takes is none of this SDK.
SdkSymbols == SdkGoto("symbols", "close") \/ SdkGoto("symbols", "init")

SdkInitCleanedUp ==                                 \* (mutant)
    \/ SdkGoto("init", "cleanup")
    \/ /\ library.step = "init"
       /\ library' = [library EXCEPT !.step = "cleanup", !.initialised = TRUE]
SdkInit ==
    \/ SdkGoto("init", "close")
    \/ /\ library.step = "init"
       /\ library' = [library EXCEPT !.step = "cleanup", !.initialised = TRUE]

SdkCleanup ==
    /\ library.step = "cleanup"
    /\ library' = [library EXCEPT !.step = "close", !.initialised = FALSE]

SdkStep ==
    /\ SdkOpen \/ SdkSymbols \/ SdkInit \/ SdkCleanup \/ SdkClose
    /\ UNCHANGED <<file, running, options, last, saved>>

UserStep ==
    \/ \E cli \in CommandLine :
        Refuse(cli) \/ CheckSdk(cli) \/ NoWindow(cli) \/ OpenWindow(cli) \/ HandOver(cli)
    \/ SettingsSave \/ CheckSdkClicked
    \/ Quit

Next == SdkStep \/ (library.step = "none" /\ UserStep)

Spec == Init /\ [][Next]_vars

-----------------------------------------------------------------------------
(* Properties                                                              *)

\* Every variable has its type.
TypeOK ==
    /\ file \in Stored \cup Options \cup {NoFile}
    /\ running \in BOOLEAN
    /\ options \in Options
    /\ last \in Launches
    /\ saved \in Options \cup {NoFile}
    /\ library \in SdkCheck

\* Whatever was saved, overridden or written into the file by hand, a window
\* discovers with a timeout the program declares usable: load, command line
\* and dialog keep it in range each in its own way.
TimeoutInRange == UsableTimeout(options.timeout)

\* No content of the file keeps the program from starting: a launch is
\* refused only for a timeout on its own command line.
FileNeverRefused == last.status = "refused" => last.cli.timeout # 0

\* What was saved is what a later launch without options works with.
SettingsSurvive ==
    saved # NoFile =>
        /\ Load.bind = saved.bind
        /\ Load.timeout = saved.timeout
        /\ saved.sdk # Empty => Load.sdk = saved.sdk

\* However a check of the SDK ends, the library is unloaded as often as it was
\* loaded, and never while it is initialised: NET_SDK_Cleanup follows a
\* NET_SDK_Init that succeeded, and no other.
LibraryReleased ==
    /\ library.step = "none" => library.handles = 0
    /\ library.initialised => library.handles > 0
    /\ library.step = "cleanup" <=> library.initialised

-----------------------------------------------------------------------------
(* The inductive invariant of the proofs                                   *)

\* The file holds what was saved last, and that is usable.
SavedInFile == saved # NoFile => file = saved /\ UsableTimeout(saved.timeout)

\* The library is loaded from its opening to its closing and initialised
\* between a successful initialisation and the cleanup.
LibraryInUse ==
    /\ library.handles =
         IF library.step \in {"symbols", "init", "cleanup", "close"} THEN 1 ELSE 0
    /\ library.initialised <=> library.step = "cleanup"

IndInv ==
    /\ TypeOK /\ TimeoutInRange /\ FileNeverRefused
    /\ SavedInFile /\ LibraryInUse
=============================================================================
