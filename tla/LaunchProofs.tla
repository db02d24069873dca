------------------------------ MODULE LaunchProofs ------------------------------
(* Theorems about Launch, for any paths, addresses and timeouts.           *)
EXTENDS Launch, TLAPS

USE DEF Launches, SdkCheck

-----------------------------------------------------------------------------
(* Options                                                                 *)

\* Whatever the file holds, what is loaded are options, with a timeout that a
\* launch accepts.
LEMMA Loaded ==
    ASSUME file \in Stored \cup Options \cup {NoFile}
    PROVE  Load \in Options /\ UsableTimeout(Load.timeout)
<1>1. CASE file = NoFile
    BY <1>1, LaunchAssumption
    DEF Load, Defaults, Options, UsableTimeout, MinTimeout, MaxTimeout, DefaultTimeout
<1>2. CASE file # NoFile
    <2>1. /\ file.sdk \in Path \cup {Empty} /\ file.bind \in Address \cup {Empty}
          /\ file.timeout \in Nat \cup {Empty}
        BY <1>2, LaunchAssumption DEF Stored, Options
    <2> QED
        BY <1>2, <2>1, LaunchAssumption
        DEF Load, FromFile, Options, UsableTimeout, MinTimeout, MaxTimeout, DefaultTimeout
<1> QED
    BY <1>1, <1>2

\* Options overridden from the command line are options.
LEMMA Overridden ==
    ASSUME NEW o \in Options, NEW cli \in CommandLine
    PROVE  /\ Override(o, cli) \in Options
           /\ cli.timeout = 0 => Override(o, cli).timeout = o.timeout
BY LaunchAssumption DEF Override, Options, CommandLine

\* The timeout of accepted options is usable.
LEMMA AcceptableIsUsable ==
    ASSUME NEW o \in Options
    PROVE  Acceptable(o) <=> UsableTimeout(o.timeout)
BY LaunchAssumption DEF Acceptable, UsableTimeout, Options

\* The spin button makes a usable timeout of any number.
LEMMA ClampedIsUsable ==
    ASSUME NEW t \in Nat
    PROVE  Clamped(t) \in Nat /\ UsableTimeout(Clamped(t))
BY LaunchAssumption DEF Clamped, UsableTimeout, MinTimeout, MaxTimeout

\* The library an SDK check opens is one of the paths or the loader's.
LEMMA Resolved ==
    ASSUME NEW sdk \in Path \cup {Empty}
    PROVE  Resolve(sdk) \subseteq Path \cup {Empty, LoaderPath}
BY LaunchAssumption DEF Resolve

-----------------------------------------------------------------------------
(* The inductive invariant                                                 *)

\* At first there is a file at most.
LEMMA IndInvInit == Init => IndInv
<1> SUFFICES ASSUME Init
             PROVE  IndInv
    OBVIOUS
<1>1. options = Defaults /\ Defaults \in Options /\ UsableTimeout(Defaults.timeout)
    BY LaunchAssumption DEF Init, Defaults, Options, UsableTimeout, MinTimeout, MaxTimeout,
                            DefaultTimeout
<1>2. /\ last \in Launches
      /\ FileNeverRefused
    BY DEF Init, NotLaunched, NoOptions, Outcome, CommandLine, Status, FileNeverRefused
<1>3. /\ library \in SdkCheck
      /\ LibraryInUse
    BY DEF Init, NoCheck, LibraryInUse
<1>4. SavedInFile
    BY DEF Init, SavedInFile
<1> QED
    BY <1>1, <1>2, <1>3, <1>4 DEF Init, IndInv, TypeOK, TimeoutInRange

\* A step of a check keeps the count of handles.
LEMMA SdkStepInv == IndInv /\ SdkStep => IndInv'
<1> SUFFICES ASSUME IndInv, SdkStep
             PROVE  IndInv'
    OBVIOUS
<1>1. UNCHANGED <<file, running, options, last, saved>>
    BY DEF SdkStep
<1>2. /\ library' \in SdkCheck
      /\ LibraryInUse'
    <2>1. library \in SdkCheck
        BY DEF IndInv, TypeOK
    <2>2. LibraryInUse
        BY DEF IndInv
    <2>3. CASE SdkOpen
        <3>1. library.handles = 0 /\ library.initialised = FALSE
            BY <2>1, <2>2, <2>3 DEF SdkOpen, SdkGoto, LibraryInUse
        <3>2. CASE SdkGoto("open", "none")
            BY <2>1, <2>2, <3>2 DEF SdkGoto, LibraryInUse
        <3>3. CASE ~SdkGoto("open", "none")
            <4>1. library' = [library EXCEPT !.step = "symbols", !.handles = 1]
                BY <2>3, <3>1, <3>3 DEF SdkOpen
            <4>2. /\ library' \in SdkCheck
                  /\ library'.step = "symbols" /\ library'.handles = 1
                  /\ library'.initialised = library.initialised
                BY <2>1, <4>1
            <4> QED
                BY <3>1, <4>2 DEF LibraryInUse
        <3> QED
            BY <3>2, <3>3
    <2>4. CASE SdkSymbols
        BY <2>1, <2>2, <2>4 DEF SdkSymbols, SdkGoto, LibraryInUse
    <2>5. CASE SdkInit
        BY <2>1, <2>2, <2>5 DEF SdkInit, SdkGoto, LibraryInUse
    <2>6. CASE SdkCleanup
        BY <2>1, <2>2, <2>6 DEF SdkCleanup, LibraryInUse
    <2>7. CASE SdkClose
        <3>1. library.handles = 1 /\ library.initialised = FALSE
            BY <2>1, <2>2, <2>7 DEF SdkClose, LibraryInUse
        <3>2. library' = [library EXCEPT !.step = "none", !.handles = 0]
            BY <2>7, <3>1 DEF SdkClose
        <3>3. /\ library' \in SdkCheck
              /\ library'.step = "none" /\ library'.handles = 0
              /\ library'.initialised = library.initialised
            BY <2>1, <3>2
        <3> QED
            BY <3>1, <3>3 DEF LibraryInUse
    <2> QED
        BY <2>3, <2>4, <2>5, <2>6, <2>7 DEF SdkStep
<1> QED
    BY <1>1, <1>2 DEF IndInv, TypeOK, TimeoutInRange, FileNeverRefused, SavedInFile,
                      UsableTimeout

\* What a launch or a click makes of the latest outcome.
LEMMA OutcomeTyping ==
    ASSUME NEW cli \in CommandLine, NEW status \in Status,
           NEW opened \in Path \cup {Empty, LoaderPath}
    PROVE  /\ Outcome(cli, status, opened) \in Launches
           /\ Outcome(cli, status, opened).status = status
           /\ Outcome(cli, status, opened).cli = cli
BY DEF Outcome

\* A launch that opens no window and refuses nothing, a click on "Check SDK"
\* included, leaves the options alone.
LEMMA LaunchInv ==
    ASSUME IndInv, library.step = "none", NEW cli \in CommandLine,
           Refuse(cli) \/ CheckSdk(cli) \/ NoWindow(cli) \/ OpenWindow(cli) \/ HandOver(cli)
    PROVE  IndInv'
<1> DEFINE o == Override(Load, cli)
<1>1. /\ Load \in Options /\ UsableTimeout(Load.timeout) /\ o \in Options
      /\ cli.timeout = 0 => o.timeout = Load.timeout
    BY Loaded, Overridden DEF IndInv, TypeOK
<1>2. Acceptable(o) <=> UsableTimeout(o.timeout)
    BY <1>1, AcceptableIsUsable
<1>3. /\ last' \in Launches
      /\ FileNeverRefused'
    <2>1. CASE Refuse(cli)
        <3>1. cli.timeout # 0
            BY <1>1, <1>2, <2>1 DEF Refuse
        <3> QED
            BY <2>1, <3>1, OutcomeTyping DEF Refuse, Status, FileNeverRefused
    <2>2. CASE CheckSdk(cli)
        <3>1. PICK path \in Resolve(o.sdk) : last' = Outcome(cli, "checked", path)
            BY <2>2 DEF CheckSdk
        <3>2. path \in Path \cup {Empty, LoaderPath}
            BY <1>1, Resolved DEF Options
        <3> QED
            BY <3>1, <3>2, OutcomeTyping DEF Status, FileNeverRefused
    <2>3. CASE NoWindow(cli)
        BY <2>3, OutcomeTyping DEF NoWindow, Status, FileNeverRefused
    <2>4. CASE OpenWindow(cli) \/ HandOver(cli)
        BY <2>4, OutcomeTyping DEF OpenWindow, HandOver, Status, FileNeverRefused
    <2> QED
        BY <2>1, <2>2, <2>3, <2>4
<1>4. options' \in Options /\ UsableTimeout(options'.timeout)
    <2>1. CASE OpenWindow(cli)
        BY <1>1, <1>2, <2>1 DEF OpenWindow
    <2>2. CASE ~OpenWindow(cli)
        BY <2>2 DEF Refuse, CheckSdk, NoWindow, HandOver, IndInv, TypeOK, TimeoutInRange
    <2> QED
        BY <2>1, <2>2
<1>5. /\ running' \in BOOLEAN
      /\ UNCHANGED <<file, saved>>
    BY DEF Refuse, CheckSdk, NoWindow, OpenWindow, HandOver, IndInv, TypeOK
<1>6. /\ library' \in SdkCheck
      /\ LibraryInUse'
    BY DEF Refuse, CheckSdk, NoWindow, OpenWindow, HandOver, IndInv, TypeOK, LibraryInUse
<1> HIDE DEF o
<1> QED
    BY <1>3, <1>4, <1>5, <1>6
    DEF IndInv, TypeOK, TimeoutInRange, SavedInFile, UsableTimeout

\* What is saved is what the window uses, and usable.
LEMMA SettingsInv == IndInv /\ SettingsSave => IndInv'
<1> SUFFICES ASSUME IndInv, SettingsSave
             PROVE  IndInv'
    OBVIOUS
<1>1. PICK sdk \in Path \cup {Empty}, bind \in Address \cup {Empty},
           typed \in Timeout \cup {options.timeout} :
          LET new == [sdk |-> sdk, bind |-> bind, timeout |-> Clamped(typed)] IN
          options' = new /\ SaveFile(new)
    BY DEF SettingsSave
<1> DEFINE new == [sdk |-> sdk, bind |-> bind, timeout |-> Clamped(typed)]
<1>2. typed \in Nat
    BY LaunchAssumption DEF IndInv, TypeOK, Options
<1>3. new \in Options /\ UsableTimeout(new.timeout)
    BY <1>2, ClampedIsUsable DEF Options
<1>4. options' = new /\ SaveFile(new)
    BY <1>1
<1> HIDE DEF new
<1>5. /\ file' \in Stored \cup Options \cup {NoFile}
      /\ saved' \in Options \cup {NoFile}
      /\ SavedInFile'
    BY <1>3, <1>4 DEF SaveFile, IndInv, TypeOK, SavedInFile, UsableTimeout
<1>6. /\ last' \in Launches
      /\ FileNeverRefused'
    BY LaunchAssumption DEF SettingsSave, NotLaunched, NoOptions, Outcome, CommandLine,
                            Status, FileNeverRefused
<1>7. UNCHANGED <<running, library>>
    BY DEF SettingsSave
<1> QED
    BY <1>3, <1>4, <1>5, <1>6, <1>7
    DEF IndInv, TypeOK, TimeoutInRange, LibraryInUse, UsableTimeout

\* A click on "Check SDK" and the end of the program keep the invariant.
LEMMA WindowInv ==
    IndInv /\ library.step = "none" /\ (CheckSdkClicked \/ Quit) => IndInv'
<1> SUFFICES ASSUME IndInv, library.step = "none", CheckSdkClicked \/ Quit
             PROVE  IndInv'
    OBVIOUS
<1>1. NoOptions \in CommandLine
    BY LaunchAssumption DEF NoOptions, CommandLine
<1>2. /\ last' \in Launches
      /\ FileNeverRefused'
    <2>1. CASE CheckSdkClicked
        <3>1. PICK path \in Path \cup {Empty, LoaderPath} :
                  last' = Outcome(NoOptions, "tried", path)
            BY <2>1, Resolved DEF CheckSdkClicked
        <3> QED
            BY <1>1, <3>1, OutcomeTyping DEF Status, FileNeverRefused
    <2>2. CASE Quit
        BY <1>1, <2>2, OutcomeTyping DEF Quit, NotLaunched, Status, FileNeverRefused
    <2> QED
        BY <2>1, <2>2
<1>3. options' \in Options /\ UsableTimeout(options'.timeout) /\ running' \in BOOLEAN
    <2>1. Defaults \in Options /\ UsableTimeout(Defaults.timeout)
        BY LaunchAssumption DEF Defaults, Options, UsableTimeout, MinTimeout, MaxTimeout,
                                DefaultTimeout
    <2> QED
        BY <2>1 DEF CheckSdkClicked, Quit, IndInv, TypeOK, TimeoutInRange
<1>4. /\ library' \in SdkCheck
      /\ LibraryInUse'
    BY DEF CheckSdkClicked, Quit, IndInv, TypeOK, LibraryInUse
<1>5. UNCHANGED <<file, saved>>
    BY DEF CheckSdkClicked, Quit
<1> QED
    BY <1>2, <1>3, <1>4, <1>5
    DEF IndInv, TypeOK, TimeoutInRange, SavedInFile, UsableTimeout

\* Every step keeps the inductive invariant.
LEMMA IndInvStep == IndInv /\ [Next]_vars => IndInv'
<1> SUFFICES ASSUME IndInv, [Next]_vars
             PROVE  IndInv'
    OBVIOUS
<1>1. CASE SdkStep
    BY <1>1, SdkStepInv
<1>2. CASE library.step = "none" /\ UserStep
    BY <1>2, LaunchInv, SettingsInv, WindowInv DEF UserStep
<1>3. CASE UNCHANGED vars
    BY <1>3 DEF vars, IndInv, TypeOK, TimeoutInRange, FileNeverRefused, SavedInFile,
                LibraryInUse, UsableTimeout
<1> QED
    BY <1>1, <1>2, <1>3 DEF Next

\* The options in use stay usable, the file holds what was saved last, and the
\* library is loaded while it is used.
THEOREM Inductive == Spec => []IndInv
BY IndInvInit, IndInvStep, PTL DEF Spec

-----------------------------------------------------------------------------
(* What follows                                                            *)

\* Every variable has its type.
THEOREM LaunchTypes == Spec => []TypeOK
BY Inductive, PTL DEF IndInv

\* No file, command line or dialog leads to a timeout that is out of range.
THEOREM TimeoutKept == Spec => []TimeoutInRange
BY Inductive, PTL DEF IndInv

\* Whatever config.ini holds, the program starts without options.
THEOREM AnyFileStarts == Spec => []FileNeverRefused
BY Inductive, PTL DEF IndInv

\* What the dialog saved is what a later launch loads.
THEOREM SettingsLast == Spec => []SettingsSurvive
<1>1. IndInv => SettingsSurvive
    BY DEF IndInv, SavedInFile, SettingsSurvive, Load, FromFile
<1> QED
    BY <1>1, Inductive, PTL

\* Every way out of an SDK check undoes what the check did.
THEOREM LibraryGoesBack == Spec => []LibraryReleased
<1>1. IndInv => LibraryReleased
    BY DEF IndInv, LibraryInUse, LibraryReleased
<1> QED
    BY <1>1, Inductive, PTL

-----------------------------------------------------------------------------
(* Loading and saving                                                      *)

\* Loading makes of any file what loading and saving leave as it is: the dialog,
\* opened after a launch without options and saved with nothing changed, writes
\* a file that the next launch loads to the same options, however odd the file
\* was that the first launch found.
THEOREM LoadingIsStable ==
    ASSUME NEW stored \in Stored \cup Options
    PROVE  LET o == FromFile(stored) IN
           /\ o \in Options
           /\ FromFile(o) = o
           /\ [sdk |-> o.sdk, bind |-> o.bind, timeout |-> Clamped(o.timeout)] = o
<1> DEFINE o == FromFile(stored)
<1>1. /\ stored.sdk \in Path \cup {Empty} /\ stored.bind \in Address \cup {Empty}
      /\ stored.timeout \in Nat \cup {Empty}
    BY LaunchAssumption DEF Stored, Options
<1>2. o.sdk \in Path /\ o.bind = stored.bind
    BY <1>1, LaunchAssumption DEF FromFile
<1>3. o.timeout \in Nat /\ UsableTimeout(o.timeout)
    BY <1>1, LaunchAssumption
    DEF FromFile, UsableTimeout, MinTimeout, MaxTimeout, DefaultTimeout
<1>4. o = [sdk |-> o.sdk, bind |-> o.bind, timeout |-> o.timeout]
    BY DEF FromFile
<1> HIDE DEF o
<1>5. Clamped(o.timeout) = o.timeout
    BY <1>3 DEF Clamped, UsableTimeout, MinTimeout, MaxTimeout
<1>6. FromFile(o) = o
    BY <1>2, <1>3, <1>4, LaunchAssumption DEF FromFile
<1>7. o \in Options
    BY <1>1, <1>2, <1>3, <1>4 DEF Options
<1>8. [sdk |-> o.sdk, bind |-> o.bind, timeout |-> Clamped(o.timeout)] = o
    BY <1>4, <1>5
<1>9. o = FromFile(stored)
    BY DEF o
<1> QED
    BY <1>6, <1>7, <1>8, <1>9

-----------------------------------------------------------------------------
(* The variable TVT_SDK_PATH                                               *)

\* A check without a path on its command line opens what the file or the
\* default names, which is never nothing.
VariableHidden ==
    last.status = "checked" /\ last.cli.sdk = NotGiven =>
        last.opened = Load.sdk /\ Load.sdk \in Path

\* What is loaded always names a path: the defaults are filled in first.
LEMMA LoadNamesPath ==
    ASSUME TypeOK
    PROVE  Load.sdk \in Path
<1>1. CASE file = NoFile
    BY <1>1, LaunchAssumption DEF Load, Defaults
<1>2. CASE file # NoFile
    <2>1. file.sdk \in Path \cup {Empty}
        BY <1>2 DEF TypeOK, Stored, Options
    <2> QED
        BY <1>2, <2>1, LaunchAssumption DEF Load, FromFile
<1> QED
    BY <1>1, <1>2

\* A check of the options resolves to their path, as they name one.
LEMMA CheckOpensLoaded ==
    ASSUME TypeOK, NEW cli \in CommandLine, cli.sdk = NotGiven, CheckSdk(cli)
    PROVE  last'.opened = Load.sdk
<1>1. Load.sdk \in Path /\ Override(Load, cli).sdk = Load.sdk
    BY LoadNamesPath DEF Override
<1>2. Resolve(Override(Load, cli).sdk) = {Load.sdk}
    BY <1>1, LaunchAssumption DEF Resolve
<1> QED
    BY <1>2 DEF CheckSdk, Outcome

\* Every step keeps the variable hidden.
LEMMA VariableHiddenStep == IndInv /\ VariableHidden /\ [Next]_vars => VariableHidden'
<1> SUFFICES ASSUME IndInv, VariableHidden, [Next]_vars
             PROVE  VariableHidden'
    OBVIOUS
<1>1. TypeOK
    BY DEF IndInv
<1>2. CASE UNCHANGED <<file, last>>
    BY <1>2 DEF VariableHidden, Load
<1>3. ASSUME NEW cli \in CommandLine, CheckSdk(cli)
      PROVE  VariableHidden'
    <2>1. last'.cli = cli /\ Load' = Load
        BY <1>3 DEF CheckSdk, Outcome, Load
    <2> QED
        BY <1>1, <1>3, <2>1, LoadNamesPath, CheckOpensLoaded DEF VariableHidden
<1>4. ASSUME NEW cli \in CommandLine,
             Refuse(cli) \/ NoWindow(cli) \/ OpenWindow(cli) \/ HandOver(cli)
      PROVE  VariableHidden'
    BY <1>4 DEF Refuse, NoWindow, OpenWindow, HandOver, Outcome, VariableHidden
<1>5. CASE SettingsSave \/ CheckSdkClicked \/ Quit
    BY <1>5 DEF SettingsSave, CheckSdkClicked, Quit, NotLaunched, Outcome, VariableHidden
<1> QED
    BY <1>2, <1>3, <1>4, <1>5 DEF Next, SdkStep, UserStep, vars

\* Whatever TVT_SDK_PATH, the file and the paths are, a check whose command
\* line names no path never opens what the variable names on its account:
\* tvt_app_options_init fills in the default before resolve_path looks at it.
THEOREM VariableIsHidden == Spec => []VariableHidden
<1>1. Init => VariableHidden
    BY DEF Init, NotLaunched, Outcome, VariableHidden
<1> QED
    BY <1>1, VariableHiddenStep, Inductive, PTL DEF Spec
=============================================================================
