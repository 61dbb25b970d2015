# nginx-builder in TLA+

nginx-builder fetches, builds and packages nginx 1.18.0 with some sixty
third-party modules, libraries and Lua packages. Its own code is two bash
scripts, `nginx_builder` (fetches the sources, makes a release of them,
prepares the host, sets up PostgreSQL and the services) and `install` (builds
from an unpacked release), and `README.md`. Everything else in the repository
is vendored: nginx (`ngx_src`), its modules (`ngx_module`), libraries
(`etc_src`), LuaJIT and Lua packages (`lua_src`). These modules are about the
two scripts.

Neither script runs under `set -e`, and neither looks at an exit status: a
`cd`, `pushd`, `make`, `wget`, `tar` or `git` that fails is a line of output
and the next command runs. What they do is therefore decided by the state they
find (which directories exist, where the shell is, what earlier, failed or
killed runs left), and that is what is modelled.

## Inventory

| part | state it keeps | operations | how it interacts | what makes it correct |
|---|---|---|---|---|
| `install`: dependency build (`main`) | working directory, directory stack, the files below `$PARENTF` | walks `etc_src` and `lua_src` with `pushd`/`popd`; builds sregex, drizzle, ModSecurity, LuaJIT, cjson, resty-signal; writes `lua_package_path` | reads the tree `nginx_builder` made; its products are what the hand-over refers to | the shell is where the text says, or harmlessly elsewhere; `rm -rf build` deletes no nginx and no source; no library of an earlier run is taken for a new one; every run ends |
| `install`: hand-over (`make_configure`) | `nginx_configuration`, exported variables | tests for OpenSSL, writes the file, ends in a shell | the user runs `./nginx_configuration` and `make install` in it | what it names exists; it belongs to the same `IS_LOCAL` as `lua_package_path` |
| `nginx_builder`: acquisition (`get_arch`, `get_github`) | files, folders, `.git`s, the manifest `versions` | download, unpack, verify; clone or pull, record url and tag | called 45 times in a fixed order by the six functions below; GitHub changes at any time | a run that ends has every source; only a `git pull` that is cut short damages what was complete; a pinned source is cloned at its pin and only a `git pull` moves it; the manifest says what is in the folders |
| `nginx_builder`: layout (`etc_src`, `ngx_module`, `luajit2_prepare`, `lua_src`, `openssl_get`, `ngx_src`) | working directory, tree | `mkdir` and `cd`, then calls with relative names | decides where `install`, `configure` and Lua find things | every source in its place; every name the other script uses obtained |
| `nginx_builder`: `prepare_for_archive` | the `.git` folders | `find ... | xargs rm -rf` | changes what the next run's `git` does in the folders | the checkout around the sources is pulled only because of it; the manifest names no tag of that checkout for a folder with a repository of its own |
| `nginx_builder`: builds (with `redis_get`), `make_configure` | as in `install` | as in `install`, with `IS_GET_ONLY=0`, between the calls | a folder that cannot be had ends the run | every build runs in its own folder; what is handed over is there and fresh |
| `root_prepare` | user, packages, the gcc alternatives, nginx's directories | installs gcc 7 and asks to be run again; with `IS_LOCAL=0` deletes the installed nginx and makes its directories anew | before everything else; what it makes is what a start of nginx needs | the repeated runs come to an end, with gcc 7; a run that exits has deleted nothing |
| `make_nginx_service`, `make_nginx_tmpfile` | unit and tmpfile | write, enable | with `root_prepare`, `luajit2_prepare`, `lua_src`, `make_configure`, the user's `make install` and editing of `nginx.conf`, in runs of their own if need be | after a reboot nginx is up, the Lua VM included |
| `openssl_generate_localhost` | key, certificate, Diffie-Hellman parameters | `pushd`, `mkdir`, `openssl req`, `openssl dhparam` | called by the user only; needs `/etc/<nginx>` of `make install` | the key is the certificate's; the one file that is tested stands for all three; the shell comes back to where it was |
| `postgres_get`, `make_postgres_service` | programs, data directories, the server on port 5432, the unit | `rm -rf`, get, build, `initdb`, start, create, stop; write and enable a unit | both modes share the port; the unit spells out paths of its own | data survives re-runs; a run ends with the database; with `IS_LOCAL=0` the unit starts that cluster |
| vendored code | - | - | built by the scripts | out of scope, except what the scripts rely on: the order in which nginx's `make install` and start, and openssl, make and open files |

What is hard here is not concurrency inside the scripts (there is none) but
the sequences of runs: partial failures nobody notices, kills between and in
the middle of commands, re-runs over what is there, reboots, tests for mere
existence, relative names, upstream repositories that move, servers that
outlive their script, and two scripts that agree only on names. `PROJECT.json`
lists these hazards line by line.

## Modules

| module | models | state and actions |
|---|---|---|
| `ShellDirs` | bash's `cd`, `pushd`, `popd` without `set -e` | operators on a record of working directory and stack; a directory that is missing changes nothing |
| `Layout` | the directory names both scripts use | operators only |
| `Install` | `src/install`, all of it | `sh` is the shell, `fs` the paths that exist, `fresh` those that a build of the present run put there (one that failed adds none), `luaPath` and `conf` the two files the user is handed, `pc`, `g`, `c` the place in the script. One action per kind of command: `PushdGroup`, `PushdComponent`, `BuildSucceeds`/`BuildFails` (with the `rm -rf build`, `mkdir build`, `make clean` before), `PopdComponent`, `PopdGroup`, `WritePackagePath`, `MakeConfigure`, `EnterNginx`; the user's `Start`, `InstallNginx`, `Leave`, `Interrupt`; and between runs `Lose` (a directory goes missing) and `Restore` (the release is unpacked again) |
| `GetArch` | `get_arch` | `Download`, `Unpack`, `Verify`; a file is absent, empty, cut or whole, a folder absent, partial or whole |
| `GetGithub` | `get_github` | `PullOrClone`, `Check`, `RecordUrl`, `RecordTag`; `PullOrClone` is `Clone`, `Pull` or, where git finds no `.git` and goes up, `PullAround`. A folder has content, a `.git` (none, broken, on a branch, detached) and a version; a pull that is cut short leaves files of two versions, and one of the enclosing checkout moves every source that it tracks (`tracked`) |
| `Builder` | `main` and `prepare_for_archive` of `src/nginx_builder`, with `GetArch` and `GetGithub` as its two kinds of call (`INSTANCE` over shared variables) | `Start`, `ArchStep`, `GitStep`, `NextCall`, `Exit`, `StripOne`, `StripDone`, `Leave`; `KillArch`, `KillGit`, `KillStrip`; GitHub's `Release`; the maintainer's `EditPin` (moves, adds or takes out the tag of a repository in `MayEdit`) |
| `SourceTree` | what `Builder` promises | `Begin`, `Obtain`, `Finish`, `Abort`, `Leave` over the set of sources that are there |
| `Sources` | the six functions with the real lists of sources, against what `install`, the `--add-module` lines and `lua_package_path` name | `Enter` (`mkdir`, `cd`), `Get`, `Back` (`cd $PARENTF`), `Start`, `Gone` |
| `Compile` | `nginx_builder` with `IS_GET_ONLY=0`, `redis_get` and `make_configure` | `Enter`, `Get` (or exit), `PushdItem`, `BuildSucceeds`/`BuildFails`, `Return`, `Back`, `MakeConfigure`; `Start`, `Gone`, `Lose`. Of the sources only those that are built or named are in the lists |
| `RootPrepare` | `root_prepare` | one action per command that changes state, `Check` for the two tests of line 91-95; `Begin`, `Kill`, Debian's `Upgrade` of gcc, the user's `Obey` (types what line 92 says) and `InstallNginx` |
| `NginxHost` | `main` as the user puts it together of `root_prepare` (the module above, `INSTANCE` over shared variables), `luajit2_prepare`, `lua_src`, `make_configure`, `make_nginx_service`, `make_nginx_tmpfile`; `make install`, the editing of `nginx.conf`, and the start of nginx | `Call` goes down main, calling any selection of the functions in order; `PrepareLuaJIT` and `GetLua` are what a start of nginx loads; `MakeConfigure` ends main in a shell, where `BeginInstall` and `InstallStep` are the commands of `make install`; `EditConf` puts the strings of `lua_src` into `nginx.conf`; `KillClone`, `StartNginx`, `Kill`, `Reboot`. `ended` remembers which parts did their work when they were last begun |
| `Certificates` | `openssl_generate_localhost` | one action per command, with `openssl req` and `openssl dhparam` in the steps in which they open and write their files; `pushd`, `mkdir` and `cd` may fail; `OpensslFails`, `Interrupt`, `InstallNginx` |
| `Postgres` | `postgres_get` and `make_postgres_service` | one action per command, `initdb` in two (`Initdb`, `Bootstrap`), `MakePostgresService` and `EnableService`; `Gone`, `OrphanEnds`, `Reboot`, `StartService`, `UserWrites` |
| `MCInstall`, `MCBuilder`, `MCCompile`, `MCRootPrepare` | trees, calls, missing directories and first compilers for TLC | |
| `InstallProofs`, `SourcesProofs`, `CompileProofs`, `RootPrepareProofs`, `NginxHostProofs`, `CertificatesProofs`, `PostgresProofs`, `BuilderProofs` | theorems | see below |

Abstractions. A path is a sequence of names; of the files in a component only
those exist that a command deletes, makes or refers to (for ModSecurity also
its own directory called `build`, for drizzle the `build` with a library in it
that the release ships). The 22 `--add-module` folders are one
directory in `Install` and `Compile`, and a list in `Sources`. What happens
inside `make` is success or failure; it can only succeed in the component's own
directory, with the headers it needs there, and with a `-j` that make accepts.
A repository's history is a sequence of versions, each with a tag unless the
repository has none. A failed download is one that leaves the file empty or
cut; disk and network failures are one flag, `healthy`, chosen for each run.
Of the packages only the compilers are told apart, and of gcc what exists, what
`update-alternatives` knows and what `gcc` is. What a database holds is a set
of four things the script or a user puts there. The PostgreSQL programs are not
in the repository: they are modelled by when they refuse and what they change.

Definitions marked as mutants (`ProductNoPrefix`, `RemoveData`, ...) are used
nowhere: each is a plausible wrong version of the definition below it, under
which the property it goes with fails.

## Runs

Deadlock is checked in every run: the user can always start the script again.

| run | instance | question | result | distinct states |
|---|---|---|---|---|
| `install_local` | `IS_LOCAL=1`, either `IS_GET_ONLY`, libraries in `lib64`; any of six directories missing and coming back between runs, every build succeeding or failing | what `rm -rf build` deletes, what is reused, what a complete run hands over, does every run end | holds | 277,916 |
| `install_modes` | both `IS_LOCAL`, both `IS_GET_ONLY`, two processors, libraries in `lib`, `ngx_src`'s nginx may be missing | do the two files the user is handed belong together; is anything but the known gaps missing of what they name | holds | 2,651,518 |
| `sources` | the real lists; both modes; with and without the right to make `/opt/lua_src`; runs that stop at any call | is everything in its place and everything that is named obtained | holds | 187,062 |
| `builder_history` | two repositories (one pinned, below `$PARENTF`; one without a tag in the script, in `/opt/lua_src`) and an archive; a checkout with or without the sources; two kills or bad runs; two versions; the tag moved, taken out and added | manifest, failures, stripping, completeness, pins, refinement of `SourceTree` with its liveness | holds | 341,647 |
| `compile` | both modes, root or not, `sregex.git` and `luajit2.git` that may go missing, four processors, libraries in `lib` | where builds run, what is reused, what is named | holds | 209,141 |
| `prepare` | Debian 10, four first states of the compilers, root or not, both modes, three kills or upgrades | who gets past the check, what is deleted, does obeying the messages lead through | holds | 3,939 |
| `host` | any selection of calls in any number of runs, both modes, root or not, failing builds, kills and reboots anywhere, `nginx.conf` edited or not | does nginx come up after a reboot | holds | 1,077,822 |
| `certs` | interrupted and repeated runs, root or not, any `pushd`, `mkdir` or openssl failing, three keys | do the three files belong together, where is the shell | holds | 624,066 |
| `postgres` | both modes, root or not, kills, failures, orphaned servers, reboots, use of the database | what becomes of clusters, content and server | holds | 65,877 |
| `install_openssl` | | is the unpacked OpenSSL used | violated: the test is made in the wrong directory | |
| `prepare_stuck` | one kill | do the messages always lead through | violated: gcc-7 installed and never registered | |
| `install_lib` | `IS_LOCAL=1`, nothing missing, libraries in `lib` | does every directory exist that a complete build hands over | violated: `lib64` is spelt out | |

Properties worth a word:

- `NginxSurvives` has a precondition, `KeepsTheWay`: `etc_src` and `sregex.git`
  are there. Without `sregex.git` its `pushd` fails, `rm -rf build` runs in
  `etc_src`, and the `popd` that goes with it leaves `etc_src`; drizzle's
  `pushd` then fails too, and its `rm -rf build` deletes `$PARENTF/build`, the
  installed nginx. The property says that losing one of these two is the only way.
- `SourcesSurvive` has no precondition: wherever the shell strays, no unpacked
  file is deleted, although ModSecurity ships a directory `build`. It excepts
  one directory (`SourceFiles`): drizzle is shipped with a `build` of somebody
  else's, with a library in it, which the script is to delete and make anew;
  `StaleNotReused` says that no run that builds hands over that library.
- `HealthyRunFailsOnlyOnPoison`: the one state from which no later run
  recovers is a file that `wget -O` left empty. A run with network and disk
  exits early in no other.
- `WholeStaysWhole` names the one way in which a complete source is damaged: a
  `git pull` that is cut short (a kill, no network, a full disk) over a clone on
  a branch or, where the folder has no `.git` of its own, over the enclosing
  checkout, which may hurt whatever it tracks. Archives and clones of a tag are
  safe where the checkout does not track them.
- `PinsHold` says that a folder gets the script's tag when it is cloned and that
  `git pull` alone moves it later: that of the enclosing checkout, or that of the
  folder itself if it was cloned without a tag. That includes tags that are edited
  or added afterwards: `git pull` on a detached HEAD is refused, and the new tag
  is never checked out.
- `ManifestComplete` says of the end of a run that every repository has an
  entry with both of its lines, and that the entries are in the order of the
  calls.
- `ManifestTruthful` speaks of every state, mid-run and after kills. In a folder
  whose `.git` was removed, `git describe` answers with a tag of the enclosing
  checkout; the property says that this is the only wrong entry there can be.
- `ObtainsTheTree` is refinement of `SourceTree` under the mapping `Have`
  (folders that exist) and `run`. It says nothing about folders being
  complete, since the script does not: a cut archive passes.
- `CompleteBuildIsConfigurable` is stated in `Install` and `Compile` for both
  modes and wherever autoconf puts libraries: a complete build leaves nothing
  missing of what the hand-over names, `ConfigurationRefs` (prefixes, modules,
  and all the exported `_LIB` and `_INC` directories), but `KnownGaps`. These are
  the two `lib64` directories where the system says `lib`, and in `Install` with
  `IS_LOCAL=0` the LuaJIT headers and lua-ssl-nginx-module of `/opt/lua_src`, which
  only `nginx_builder` puts there. `HandoverIsUsable` is the statement without
  the gaps, which is what the script tells its user, and fails.
- `OnlyRunDirLost` and `AfterReboot` are two halves. `ended` holds the parts that
  did their work when they were last begun: a part that is begun anew and then
  killed or failing is not in it, and `root_prepare` takes `make install` out,
  since it deletes what that made. The first: where `root_prepare`,
  `luajit2_prepare`, `lua_src`, `make install` and the editing of `nginx.conf` are
  in it, nothing that a start of nginx asks for (binary, LuaJIT by its rpath,
  `resty.core` by `lua_package_path`, user, directories) is missing but
  `/run/nginx`, which a reboot takes, whatever was killed, failed or run before,
  between and after. The second: with unit and tmpfile as well, a reboot brings
  nginx up. Both except a clone of lua-resty-core that was once cut short: the
  folder is there, so no later run repairs it. `make_configure` ends in `exec
  bash`, so the calls below it in `main` are never reached in the same run.
  The unit names the system's nginx whatever `IS_LOCAL` is; the two properties
  are about the system's installation.
- `LeavesAPlace`: a `root_prepare` that comes back with `IS_LOCAL=0` has made the
  user and the directories, and no old binary is left, until `make install`.
- `BackWhereItBegan`: `cd ..` and `popd` undo `cd ssl` and `pushd`, whichever of
  the latter failed. Only where both failed, with neither `/etc/<nginx>` nor `$PARENTF/ssl` there, does
  `cd ..` take the caller out of `$PARENTF`.
- `CertsComplete` excepts runs that were cut short or in which openssl failed:
  `openssl dhparam` takes minutes, and after an interruption there the
  certificate, the only file that is tested, is there and the parameters are
  not, for good.
- `RunEndsWithDatabase` asks for the password only with `IS_LOCAL=0`: `psql`
  without a database name looks for one named after the user, and only the user
  `postgres` has one: the role that a local run makes stays without a password.
  Its other exception is the data directory that a crash in `initdb` left half
  made, which `initdb` refuses from then on.
- `SystemUnitStartsCluster` compares the paths that `make_postgres_service` spells
  out for `IS_LOCAL=0` (`nginx_builder:753-754`) with those of `postgres_get`
  (`nginx_builder:181-182`), in what a reboot then does. With `IS_LOCAL=1` they
  differ, see below.
- `ObeyingLeadsThrough` is what is left of `MessagesLeadThrough` (line 92's
  promise, violated): who obeys gets past the check, or is between gcc-7's
  installation and its registration.

Bounds, and why they are enough. `MaxTrouble` bounds kills and bad runs (in
`RootPrepare` kills and upgrades) together: two let a run of `nginx_builder`
meet the leftovers of one accident while it has another; three let
`root_prepare` be killed in two of its stages and find gcc upgraded.
`MaxVersion` is 2: a version that is pinned or cloned, and a newer one. Three
calls stand for 45, since calls share only `versions` and the shell, and there
is one of each kind but for a repository without tags (`Untagged`), about which
the theorems are; the full list of calls, with all orders in which `.git`
folders are removed, is beyond TLC, and `Sources` walks that list without the
insides of the calls. `MaxKeys` is 3: the key of a certificate that is there,
one that an interrupted run left, and a new one. `Processors` is 4 or 2:
`make` gets a `-j` that it accepts; that it gets `-j0` on one processor, the theorems
allow for. The path names in `Install`, `Sources` and `Compile` are
the real ones; no bound is needed there. `MayMiss` is, in `install_local`, every
directory the script enters in `etc_src` and at the ends of the walk; those of
`lua_src` have no `rm -rf`. `MayEdit` is the pinned repository: once its tag is taken
out it may be cloned without one, and then the tag comes back. `LibDir` is
`lib64` in one run and `lib` in the others. In `Compile` a directory of each kind may go
missing, and `IS_LOCAL` is the same in all runs of a behaviour: the modes share
no directory but `etc_src`. `NginxHost` and `Postgres` have no bounds: their
state is finite. The theorems below do not depend on
any of these bounds.

Fairness. In `Install` and `Builder` weak fairness of the script's own steps as
one action: a command that was started ends, with success or not. `wget`,
`git`, `tar`, `make` and `rm` end by themselves; with `IS_PAUSED=0`, as shipped,
the scripts wait for no input. Nothing is assumed of the user, of GitHub, or of
the network. `RootPrepare` is about a user who does what the messages say, so
there, besides the script's steps, `Obey` is weakly fair and a start by root
strongly (users who are not root may try in between, but not for ever); and
that a package which is asked for again and again is had at some time is strong
fairness of `GotGcc7`. Kills and upgrades are bounded and not fair. The other
modules have safety properties only.

## Disagreements met

Three runs expect a violation; `PROJECT.json` quotes the lines.

- `install:224` (and `nginx_builder:602`) test for the OpenSSL source with a
  name relative to `$PARENTF`, but it is unpacked in `etc_src`:
  `--with-openssl` is never passed (run `install_openssl`).
- `nginx_builder:92` asks for `update-alternatives --set gcc /usr/bin/gcc-7`;
  after a kill between lines 98 and 101 gcc-7 is there and not registered, the
  command is refused, and no later run registers it (run `prepare_stuck`).
- `install:307` and `309` export `build/lib64` of drizzle and `modsecurity/lib64`,
  whatever directory the configure scripts of lines 43 and 60 choose: on a
  system where that is `lib`, as on Debian, which `root_prepare` supports, neither
  exists after a complete build (run `install_lib`; `nginx_builder:685-687` are
  the same).

Met as well, and without a run of their own: with `IS_LOCAL=0` `install:219-220`
name LuaJIT's headers and lua-ssl-nginx-module in `/opt/lua_src`, where `install`
puts neither (`KnownGaps`); a user who is not root gets, with `IS_LOCAL=0`, the
Lua packages in `$PARENTF` and a `lua_package_path` that names `/opt/lua_src`
(`nginx_builder:407`; `LuaPathObtained` asks for `opt`); the unit of an `IS_LOCAL=1`
PostgreSQL names `$PARENTF/pgsql-12.2` (`nginx_builder:750-751`), where
`postgres_get` installs into `$BUILDF` (175-176), so it starts nothing; and
`nginx_builder:214` sets no password with `IS_LOCAL=1`.

## Proofs

The theorems hold for every value of the constants that satisfies the named
assumptions in the modules; none of those goes beyond what the code gives.
Paths are made of names, no component lies directly in `$PARENTF`, the calls
name every source once, settings are Boolean, bounds are natural numbers, gcc
at first is a compiler that exists. `ReleaseAssumption` of `Install` is about the
release: nothing of it is below a `build` of `$PARENTF`, `etc_src` or sregex, nor
a `librestysignal.so` of `$PARENTF`, `lua_src` or lua-resty-signal; so it is in the
repository. `NameAssumption` of `Compile`: no source has the name of the
directory that autoconf installs libraries in. No `FirstGcc`, tree, list of
calls or bound is fixed; in `Sources` the lists are the script's own, and the
theorems are about any number of runs over them.

| module | theorems (property) | argument |
|---|---|---|
| `InstallProofs` | `ShellNeverStrays` (`ShellPosition`), `InstallTypes` (`TypeOK`), `InstalledNginxSurvives` (`NginxSurvives`), `FilesAgree` (`HandoverConsistent`), `NothingStaleIsReused` (`StaleNotReused`), `NoSourceDeleted` (`SourcesSurvive`), `BuiltIsConfigurable` (`CompleteBuildIsConfigurable`), `RunsAreShort` | `InstallInv` adds to the two `NoStray`: no component's directory exists directly below `$PARENTF`, so that a `pushd` after a failed one cannot succeed there. `WayInv`, on top of it: with `etc_src` and `sregex.git` in place the build of sregex runs in its own directory and drizzle's in `etc_src` or in its own, and what is deleted there is not below `$PARENTF/build`. `HandInv` follows the two files through the last commands: where the redirection into `ngx_src` fails, so does the `cd`. `OnWay` and `StaleInv`: with the way in place the two builds that delete run in their own directories; past its build a library that is there is this run's, and nothing later touches it. That no source is deleted is `InstallInv` and where a build may be: the directories of `ReleaseAssumption`, or drizzle's own. `FreshInv`, for the configuration: what the run built are products of the builds that went before, and none of the later ones deletes below them; what then is missing of the references is a known gap, whatever `LibDir` is. `CommandsLeft` is the number of commands that a run still has before it, 25 at most |
| `SourcesProofs` | `NothingIsAstray` (`NothingAstray`), `ReleaseIsComplete` (`ShippedTree`), `PackagesAreThere` (`LuaPathObtained`), `NoComponentAstray` | `PositionInv`: the shell is where the function's `cd` was to take it, `$PARENTF` for the Lua sources of a user without rights; `ProgressInv`: what the functions before, and the calls before in this one, get is in its place; `WrittenInv`: who wrote `lua_package_path` had every Lua package. `NoComponentAstray` is what `Install` assumes of a release, of what `nginx_builder` leaves |
| `CompileProofs` | `BuildsAtHome` (`ShellPosition`), `NothingStale` (`StaleNotReused`), `RunIsConfigurable` (`CompleteBuildIsConfigurable`) | `StackInv`: the directory stack is what the place in the script says, and before a `pushd` the folder exists, since its absence ends the run. `FilesInv` for the files: no path that a build deletes or makes has the name of a source other than the one the script is at, so that the build of one leaves alone what another has installed. `SregexInv`: sregex' sources, whose headers are exported, are there once they were got |
| `RootPrepareProofs` | `PrepareTypes` (`TypeOK`), `GoesOnWithSeven` (`CompilerIsSeven`), `ExitsKeepNginx` (`ExitKeepsNginx`), `PlaceIsLeft` (`LeavesAPlace`) | `Sound` (what is known or used exists), `AtStep` (the compiler at each command), `Kept` (nothing was deleted before the check) and `Made` (what the commands so far have made) |
| `NginxHostProofs` | `HostTypes` (`TypeOK`), `OnlyRunDirIsLost` (`OnlyRunDirLost`), `UpAfterReboot` (`AfterReboot`) | `EndedIsThere`: what the parts in `ended` make is on the host, but for what a function that was begun anew has taken away, and that part is in `ended` no more; `Preparing`, `Building` and `Installing` say what is there at each command of the functions that delete before they make. `Types`: whenever `root_prepare` runs it is at one of its commands |
| `CertificatesProofs` | `CertTypes` (`TypeOK`), `KeyIsTheCerts` (`KeyMatchesCert`), `CertsAreComplete` (`CertsComplete`), `BackInParent` (`BackWhereItBegan`) | `OnlyWithout`: a run of root gets to `openssl req` only where there is no certificate, or to the commands after it only once it has made one; `Uncut`, what is finished where no run was cut; `Position`, where the shell is at each command, according to which `pushd`, `mkdir` and `cd` succeeded |
| `PostgresProofs` | `PostgresTypes` (`TypeOK`), `RunsEndWithDatabase` (`RunEndsWithDatabase`), `SystemDataKept` (`SystemDataSurvives`), `SystemUnitIsRight` (`SystemUnitStartsCluster`) | `ContentInCluster` (what a database holds is in a cluster), and, for a run in which nothing failed, what holds before each command (`ProgramsMade`, `Cleared`, `Alone`, `Ready`, `Serving`, `Added`, `Ended`); the data directories of the two modes are different paths, and of the system's the two functions' literals are equal |
| `BuilderProofs` | `BuilderTypes` (`TypeOK`), `CheckoutIsLeftAlone` (`EnclosingNotPulled`), `NothingWholeIsLost` (`WholeStaysWhole`), `PinnedStayPinned` (`PinsHold`), `OnlyPoisonStops` (`HealthyRunFailsOnlyOnPoison`), `ManifestIsTrue` (`ManifestTruthful`), `ManifestIsComplete` (`ManifestComplete`), `RunsAreShort`, `KeepsTheTree` | `FolderInv` (what kind of `.git` a folder has), `Carried` (every source that the checkout tracks is there, so a pull of it moves folders and makes none), `Behind` (the sources of the calls made are there: with it every step maps to a step of `SourceTree` or a stutter), `Ahead` (in a healthy run the next command finds what it needs, or a poisoned file), `ManifestInv` (entries belong to calls that were made), `ListInv` (which entries there are after each call, in which order, and which one lacks its tag line). `Nearer`: each command leaves fewer to come |

Every safety invariant and every action property of the passing runs is a
theorem, and so is the step by step part of the refinement. Only model-checked
is what needs fairness and ENABLED, which the prover does not have: `RunEnds`,
`ObeyingLeadsThrough` and the fairness part of `ObtainsTheTree`. For the first and
the last the two theorems `RunsAreShort` prove what does not need them: every
command of a run brings it nearer to its end, whatever fails, and nothing else
that happens in the meantime takes it further away. What is left to TLC is that
there is always a command to execute, and that it is executed.

`Sources` and `Compile` state no type invariant of their own: their places
(`NothingAstray`, `ShellPosition`) say what matters of it.

## Not modelled

- The vendored code, but for the four places where the scripts rely on the
  order of its steps (`auto/install`, the start of nginx with its Lua VM, `openssl req`,
  `openssl dhparam`). It makes up nearly all lines of the repository; of the two
  scripts, which have no file extension, the map covers more than eight lines
  in ten, the rest being messages, colours and comments.
- `get_gitany`, which is never called and is `get_github` but for the url; the
  text of messages; `IS_PAUSED=1`.
- `postgres_get` with `IS_LOCAL=0` for a user who is not root: every command of
  it fails. The link to python that `root_prepare` makes on CentOS 8: nothing reads it.
- Two scripts running at the same time in one directory: nothing in them
  suggests that use.

## Plan

Done, in this order: `ShellDirs`, `Install`, `InstallProofs`, `GetArch`,
`GetGithub`, `Builder`, `SourceTree`, `Sources`; `RootPrepare`, `NginxHost`,
`Certificates`, `Postgres`, `Compile`; the proofs of these, until every safety
property of the passing runs was one.

Left, in the order of their worth:

1. That a command is always possible where a run is under way, proved of
   `Install` and `Builder` without ENABLED: that for every state of the
   inductive invariant there are values for which an action of `Script` holds.
2. A bound like that of `RunsAreShort` for `RootPrepare`, for a user who obeys.
3. The release that `NoComponentAstray` speaks of handed to `Install` as its
   `Tree`: `ReleaseAssumption` too as a theorem of `Sources`.
