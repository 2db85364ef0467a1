# VPN Gateway: TLA+ models, checks and proofs

VPN Gateway turns a small Linux host into a LAN gateway with policy routing:
a FastAPI backend (`api/`), shell and Python scripts (`scripts/`), systemd
units (`systemd/`) and a Go helper (`cmd/vpngw-outline-ss-local`). Most of what
can go wrong in it is not in one function. It is in the order in which
requests, systemd units, `awg-quick` hooks, timers and watchers touch the same
few files and the same kernel tables, with no lock over all of them. The
modules here model that shared state and every program that moves it, step by
step where steps can interleave.

All paths below are relative to the repository root (`src/` in `PROJECT.json`).

## 1. Inventory

| # | Component | State it keeps | Operations | Interacts with |
|---|-----------|----------------|------------|----------------|
| 1 | External tunnel selector (`vpngw-select-external-tunnel.sh`, `vpngw-switch-vpn.sh`, `routers/vpn.py`, `routers/xray_client.py`, `vpngw-external-tunnel.service`) | `config/external-tunnel`, `.active` of the XRay library, units `vpngw-vpn` and `vpngw-xray-client` | select amnezia/xray/none, switch, activate, restart, boot | starts and stops units, whose hooks run component 2 |
| 2 | Routing (`vpngw-setup-routing.sh`, `vpngw-fix-routes.sh`, `vpngw-teardown-routing.sh`, `vpngw-on-vpn-down.sh`, `vpngw-watch-vpn.sh`, `routers/routing.py`) | `ip rule`, table 100, mangle/nat/filter rules, ipsets, the mode | setup, fix, teardown, tunnel up/down hooks, watcher, mode change | reads the choice of 1 and the lists of 8 |
| 3 | AmneziaWG config library (`routers/vpn.py`, `vpngw-switch-vpn.sh`, `vpngw-adapt-amneziawg.py`) | `configs/*.conf`, `.active`, `/etc/amnezia/amneziawg/amn0.conf` | upload, activate, delete, restart, adapt | runs 1, empties the cache of 6 |
| 4 | Probes of AmneziaWG configs (`routers/vpn.py`) | temporary interfaces, their files, host routes | ping, hard test, both | use the interface of 1 or one of their own |
| 5 | XRay client configs and subscriptions (`routers/xray_client.py`) | `xray-client/configs/*.key`, `.active`, `subscriptions/*.key`, `subscription-state/*.json`, HWID | upload, delete, activate, add/refresh/delete subscription | what 1 starts |
| 6 | Exit-address cache and status queries (`services/system_commands.py`, `routers/system.py`) | one cached exit address | fill, read, invalidate | emptied by 1 and 3 |
| 7 | Host access and fingerprints (`services/hosts.py`, `main.py`) | ipset of blocked hosts, fingerprint table | block, unblock, scan, background worker | ipset created by 2 |
| 8 | Domain and network lists (`services/file_manager.py`, `routers/domains.py`, `routers/networks.py`, `vpngw-update-domains.sh`, `vpngw-update-iplists.sh`) | `config/domains/*.lst`, network lists, generated dnsmasq files, what dnsmasq has read, the ipset | add, delete, replace, create, remove, regenerate, download | read by 2, runs under 9 |
| 9 | Script runner (`services/script_runner.py`) | one lock, the script that runs | run a script, give up on it | every handler that runs a script |
| 10 | XRay inbound clients and traffic statistics (`routers/xray.py`, `vpngw-xray-add-client.py`, `vpngw-xray-remove-client.py`, `vpngw-xray-stats-snapshot.py`) | `clients.json`, rendered server config, persisted counters, counters in XRay's memory | add, remove, rename, snapshot, restart | restarts its own XRay unit |
| 11 | Probes of XRay configs (`routers/xray_client.py`) | processes, ports, files under `/run` | ping, hard test, check of a subscription | read the library of 5 |
| 12 | Texts of XRay shares and subscriptions (`vpngw_xray_client_lib.py`) | none | outbounds, payloads, names | used by 5, 11 and the launcher |
| 13 | OpenVPN side tunnel (`routers/openvpn.py`, `vpngw-openvpn-*.sh`) | profiles, `.active`, unit, its own routes and rules | enable, disable, activate, up/down hooks | independent of 1 by design |
| 14 | Health check (`vpngw-health-check.sh`, `vpngw-send-email.py`, `routers/notifications.py`) | state files of the last result, boot flag, SMTP settings | timer run | reads 1 |
| 15 | Outline Shadowsocks helper (`cmd/vpngw-outline-ss-local/main.go`) | per-connection goroutines and sockets | SOCKS5 CONNECT and UDP ASSOCIATE | started by 1's XRay launcher and by 11 |
| 16 | API shell (`main.py`, `middleware/`, `config.py`, `models/`) | none of its own | HTTP plumbing, LAN filter | everything |
| 17 | Web UI, mobile app, packaging, installers, CI | — | presentation, deployment | calls 16 |

### What is hard here, and what correctness means

1. **Selector.** Selections run from two browsers, from systemd at boot and from
   a killed-and-retried request; each is a sequence of unit jobs and file
   writes. Correct: at rest a running tunnel is the chosen one; a selection
   makes before it breaks; a later selection repairs what a killed one left.
2. **Routing.** The same rules are rewritten from six places. Correct: whatever
   the kernel holds, a run alone converges to the tables of the chosen tunnel
   and mode; nothing leaks around the tunnel where the mode says it must not;
   runs that overlap end in the same place.
3. **AmneziaWG library.** Delete and overwrite look at the active marker, which
   a switch in flight writes late; a switch that is killed leaves marker, file
   and installed copy apart. Correct: the active config exists and is the
   installed one; a switch that reports success has taken effect.
4. **AmneziaWG probes.** Which interface a probe uses is decided some awaits
   before it uses it, and each step of setting one up can fail. Correct: a
   verdict is about the config asked for; no interface, key or route is left;
   no second interface with the tunnel's keys shows up beside it.
5. **Subscriptions.** A refresh spends seconds in a download between reading the
   subscription and rewriting its files. Correct: the active config is never
   removed, standalone configs are not touched, a deleted subscription stays
   deleted.
6. **Exit-address cache.** A lookup started before a switch may answer after it
   and overwrite what the switch has emptied. Correct: no address is served
   that is older than the time to live.
7. **Hosts.** Which hosts are blocked lives in an ipset that a teardown destroys,
   and what becomes of their packets depends on the order of four rules.
   Correct: a blocked host is cut off from the internet and keeps the private
   networks.
8. **Lists.** A handler edits a file and then queues for the script that puts it
   in force; by then the script of another request may be half through the
   same files, and dnsmasq is restarted by anyone. Correct: what is in force
   follows the lists, or an edit is still on its way, or the latest script is
   known to have failed; downloaded ranges come back.
9. **Script runner.** All edits wait for one lock. Correct: it is given back on
   every path, and every request is answered.
10. **Statistics.** Counters in XRay's memory reset at every restart, and several
    snapshots share one temporary file. Correct: no byte is counted twice; a
    total falls only if snapshots overlapped; a revoked client is out of XRay
    once the edit has ended, and its entry goes.
11. **XRay probes.** Many probes run at once, each with one or two processes and
    ports found a moment before they are used. Correct: a verdict is about its
    own node; no process or file stays; every check is answered.
12. **Texts.** Correct: every outbound a config needs is there, once, and marked
    so that it does not enter the tunnel it carries; every usable node of a
    payload is found; no two nodes get one name.
13. **OpenVPN.** The marker and the unit move in separate steps; the hooks add and
    remove rules by checking for one copy.
14. **Health check.** Mails are sent on a change of the stored state, which is
    stored whether or not the mail could be sent. Correct: who has got the last
    mail knows how things are, and no mail repeats the one before.
15. **Outline helper.** Four goroutines per UDP association share three channels
    of capacity one and end one another. Correct: no send blocks, the newest
    client address is not lost, and none of the goroutines outlives the
    association.

## 2. Modules, and how they correspond to the code

| Module | What it is | Runs | Theorems |
|--------|------------|------|----------|
| `TunnelSelect` | component 1: every command of every script, interleaved | `select_*` | `TunnelSelect_proof` |
| `ExternalTunnel` | abstract specification of a selection: make before break | the property `MakeBeforeBreak` of `select_alone` | `TunnelSelect_proof` |
| `RouteScripts` | component 2: what each routing script does to the kernel's tables | `routes_any` | `RouteScripts_proof` |
| `RouteRaces` | components 2 and 7: routing scripts that overlap, beside requests about hosts | `routes_any` | `RouteScripts_proof` |
| `Subscriptions` | component 5: files, markers and downloads of the XRay library | `subs_*` | `Subscriptions_proof` |
| `XrayStats` | component 10: inbound clients, XRay's counters, overlapping snapshots | `stats_overlap` | `XrayStats_proof` |
| `UdpAssociate` | component 15: the goroutines of one UDP association | `udp_associate` | `Probes_proof` |
| `ExitAddress` | component 6: the cache and its lookups, beside tunnels that move in any way | in `awg_library` | `AwgConfigs_proof` |
| `AwgConfigs` | component 3, and what it does to the tunnels `ExitAddress` looks through | `awg_library` | `AwgConfigs_proof` |
| `AwgText` | component 3: how a provider's text is adapted | in `awg_library` | `AwgConfigs_proof` |
| `Loops` | loops, over the lines of a text or of turns that are alike, for the modules about texts | in `awg_library`, `lists`, `probes` | `Loops_proof` (lemmas) |
| `Lists` | components 8 and 9: edits, the lock, the scripts, the timer | `lists` | `Lists_proof` |
| `ListText` | component 8: the text of the list files | in `lists` | `Lists_proof` |
| `AwgProbes` | component 4: probes beside a changing tunnel | `probes` | `Probes_proof` |
| `XrayProbes` | component 11: checks, processes, ports, the semaphore | `probes` | `Probes_proof` |
| `XrayText` | component 12: outbounds, payloads, names | in `probes` | `Probes_proof` |
| `HealthCheck` | component 14: runs of the health check, its mails, the settings | in `subs_alone` | `Subscriptions_proof` |

An `MC` module gives the others their small instances; where a module about
texts belongs to a component, the same `MC` module checks its functions over
all texts up to a bound. A `_proof` module EXTENDS the module it is about and
TLAPS; `Probes_proof` is about both kinds of probes and `XrayText`. To have fewer
modules, it holds the theorems about `UdpAssociate` too, and
`Subscriptions_proof` those about `HealthCheck`. Definitions whose comment begins with "Mutant:" are not part of a model:
each is a plausible bug in the definition that follows it, and serves to show
that the properties notice it. `PROJECT.json` lists for every definition the
source lines it translates, and for every property the mutant that breaks it.

How they compose: `AwgConfigs` EXTENDS `ExitAddress`, so that lookups run beside
switches, selections and restarts, and every step of `AwgConfigs` is a step of
`ExitAddress` (proved). It also EXTENDS `AwgText`, which says what its uploads write;
`XrayProbes` EXTENDS `XrayText` the same way, and `AwgText`, `ListText` and `XrayText` EXTEND
`Loops`. `TunnelSelect` and `AwgConfigs` meet in the switch
script: the first follows its unit jobs among selections, the second its files
among edits, with a unit job as one step. `RouteScripts` and `Lists` meet in the
routing scripts: the first is about rules and routes, the second about the set
and the lists, under the lock. `RouteScripts` takes each routing script as one step
over all tables; `RouteRaces` takes it command by command over the part of the
tables where an interleaving can do harm. `MCRouteScripts` runs one or the
other, `MCProbes` one or the other kind of probes, and `MCAlone` `Subscriptions` or
`HealthCheck`, only to share one run: they have no state in common.

### TunnelSelect

| Variable | In the code |
|----------|-------------|
| `sel` | content of `config/external-tunnel`; `""` while it is missing or truncated |
| `active` | the name in `xray-client/configs/.active` |
| `vpn`, `xray` | `ActiveState` of `vpngw-vpn` and `vpngw-xray-client`; `restarting` is systemd's auto-restart |
| `runs` | the config that `ExecStartPre` of `vpngw-xray-client` rendered last |
| `job`, `pc` | which script each process runs, and the command it is about to execute |
| `budget` | what is left of the bounds of a behaviour |

A process is a worker (one request of the API at a time, then the script it
runs) or `Boot` (`vpngw-external-tunnel.service`). `Request`, `Activate`, `Mark`
and `Decide` are the handlers of `routers/vpn.py`, `routers/xray_client.py` and
`routers/services_rt.py`, cut where another process can see the difference:
`write_text` truncates `.active` before it writes it. `HasActive`, `RenderCheck`,
`StartXray`, `StartVpn`, `Truncate`, `WriteChoice`, `StopXray` and `StopVpn` are
the commands of `vpngw-select-external-tunnel.sh` and `vpngw-switch-vpn.sh`.
`VpnStarted`, `XrayStarted`, `XrayExits`, `XrayRestarts` are systemd: jobs on one
unit are serialised, a stop cancels a start in progress, every waiting
`systemctl start` is told the result, and a `Type=simple` unit is active once its
launcher is forked. `Timeout` is the API killing a script after 40 s.
`PowerLoss` and `OrderlyReboot` take the host down between any two commands;
the orderly one runs `ExecStop` (select none) first, which is what the unit does
in the code and why the choice does not survive an orderly reboot.

`ExternalTunnel` knows only the stored choice, the tunnels that are up, and one
selection with its phase. The goal comes up, is recorded, and only then does the
other tunnel go. `TunnelSelect` is mapped to it by its last definition
(`Selection == INSTANCE ExternalTunnel WITH ...`).

### RouteScripts

`k` is one record for the kernel's tables: the default route, table 100, the
routes of the DNS upstreams, the fwmark rule, the number of mark rules in
mangle, the ipset, whether dnsmasq fills that very set, and the set of other
rules by name. `Setup`, `Fix`, `Teardown` and `OnVpnDown` are functions from
tables to tables, one per script; the actions are who runs them: `SetMode`
(`POST /routing/mode`), `Call` (the three routing endpoints), `RestartService`,
`LinkUp` and `VpnDown` (the `awg-quick` hooks and the XRay launcher), `XrayDown`
(nothing runs), `Select` (the selector with its routing calls), `Watch`
(`vpngw-watch-vpn.sh`). `trust` is history: whether the tables come from a
complete installation, were torn down since, or are simply what the host had.
Each script runs alone here, from its beginning to its end.

### RouteRaces

| Variable | In the code |
|----------|-------------|
| `job`, `at` | what each runner runs and the command it has come to |
| `found` | what `iptables -C`, `ipset list`, `ip rule show` or `ip link show` has answered and the script has not acted on yet |
| `ready` | `ROUTE_TABLE_READY` |
| `chain` | the rules of FORWARD for blocked hosts, in their order |
| `marks` | copies of the mangle rule for listed traffic |
| `sets`, `hosts`, `fills` | ipsets that exist, members of `vpngw_blocked_hosts`, whether dnsmasq fills the set that exists |
| `fwrule`, `table`, `linked` | the fwmark rule, table 100, the tunnel's interface |
| `during` | history: which routing scripts have run since they last were all at rest |

`Steps` lists the commands of each script in the order of the source, fix-routes
as a route and then setup-routing. Each kind of command is one operator: a
condition of the kernel (`Ask`) and, as a step of its own, what the script does on
the strength of the answer. `Drop`, `Insert` and `AppendMark` are `ipt_del`,
`ipt_insert` and `ipt_add`, after which the scripts go on whatever happens;
`CreateDomains`, `AddFwRule`, `DelFwRule`, `Route` and `Destroy` end the script when
the command fails (`set -e`). `StartScript`, `TunnelUp` and `TunnelDown` are those
who run the scripts, `StartRequest` the endpoints of host access and the start of
the API, `Kill` a time limit or a unit that stops. iptables is atomic command by
command, as it is over nftables. Left out are the rules that setup only ever
appends if they are not there, and the set of recently active hosts; the three
rules for private networks are one, and so are the marks of the two chains.

### Subscriptions

`files` is `configs/*.key`: absent, uploaded by the user, or generated from a
URL. `active` is `.active`; `keys` are the sources in `subscriptions/*.key`;
`states` are the entries in `subscription-state/*.json`; `fetch` holds the
downloads in flight. A handler is one step of the event loop up to its first
await. Only refresh and addition await between two file operations (the
download), so each is a start (`StartRefresh`, `StartAdd`), then `Fetched` or
`FetchFailed` with anything in between. `Alike` are the pairs of a subscription
`s` and a foreign name that begins with `s-` and is therefore matched by the
glob `s-*.key`. `Crash` is the API dying: in a result half stored (`HalfStored`:
some of its files written and, once all are, some of the stale ones gone, but no
new state), in a deletion half done (`HalfDeleted`), or anywhere else.

### XrayStats

`clients` and `stats` are `clients.json` and `stats.json`; `tmp` and `tmpExists`
are the temporary file, one name for all snapshots; `up`, `live`, `cnt` are
XRay, the users it was started with, and its counters. Each runner is the timer,
a status poll, an addition or a removal, and takes the steps of
`vpngw-xray-stats-snapshot.py`: `Load`, `Fetch`, `Merge`, `OpenTmp`, `Fill`,
`Replace`, and for an edit `Restart`. `inode` follows the file a runner has open
when another one renames it: a write can land in what is by then `stats.json`.
`base` is history, the bytes each user sent before XRay last started, and is
carried along with every entry and sample so that the property can say which
bytes a total stands for. `Killed` covers both ways a script is cut short: the
API's unit stops with all its children, or the API kills an edit and the
snapshot it had started goes on alone.

### UdpAssociate

`main`, `up`, `down` and `reader` are the four goroutines of
`handleUDPAssociate`: handler, client-to-tunnel relay, tunnel-to-client relay,
reader of the control connection. `activity`, `clientAddrCh` and `controlDone`
are the channels of capacity one, `done` the closed channel, `timer` the idle
timer. An address is the number of the datagram that brought it; `stored` is
history. `Reset` of a timer discards a tick that was not received (the semantics
of timers for the Go version that `go.mod` names), so there is no stale tick.

### ExitAddress and AwgConfigs

| Variable | In the code |
|----------|-------------|
| `choice` | `config/external-tunnel` |
| `ends` | for each tunnel the address its server is seen from, mute, or no interface |
| `cache` | `_EXIT_IP_CACHE`; `age` counts from `fetched_at`, `old` (history) from the probe |
| `look` | requests for the status or a refresh, at the await they have come to |
| `files`, `marker`, `dst` | `configs/<name>.conf`, `configs/.active`, `amn0.conf` |
| `job` | the command each worker's request has come to, with its config |
| `upset` | history: a config was edited under a switch, switches overlapped, one was killed |

A lookup is `Ask`, then `SayDown`, `SayCached`, or `Begin`, `Probe`, `Store`
(`Located` is its second service). `Tick` lets time pass; `Move` stands for
whatever tunnels do. In `AwgConfigs`, `Upload` truncates and `Write` fills the
file, `Delete` is one step of the event loop, and `Activate`, `Check`,
`Record`, `Stop`, `Install`, `Truncate`, `Mark`, `Start`, `Finish` are handler and
script of a switch, command by command. `Kill` is the 30 s limit. `Select` and
`Selected` are a selection as `TunnelSelect` achieves it, `Restart` is
`POST /vpn/restart`. A config is identified with the exit address of its server.

`AwgText` translates `_adapt_amneziawg_text` (`UploadAdapted`) and the script of the
same purpose (`ScriptAdapted`). Both have the same loop, whose body is `Line(reads)`,
but not the same reading of a line: the upload takes a key in any case for what it is
(`UploadReads`), the script any line that starts with a key as it is usually
written (`ScriptReads`). A line is one of the kinds that one of them tells apart, so
`dns = ` (only the upload drops it) and `DNSSEC = ` (only the script does) are kinds of their own. Bodies are functions, not operators, so that what a loop
does to a text of any length can be proved. `Only` is the loop that selects lines,
which TLC compares with `SelectSeq` (`OnlySelects`).

### Lists and ListText

| Variable | In the code |
|----------|-------------|
| `cats`, `nets`, `mode` | `config/domains/*.lst` (with the number of copies of a domain), network files, the mode |
| `conf`, `dns` | generated dnsmasq files; the domains the running dnsmasq was started with |
| `ipset` | the set `vpn_domains`, without what dnsmasq resolves into it |
| `job`, `holder` | what each request waits for or runs, with the files it edited; `asyncio.Lock` |
| `timer` | sources `vpngw-update-iplists.sh` still has to add |
| `beside` | a setup or teardown that a hook, the watcher, a selection or the routing unit runs without the lock |
| `last` | history: how the latest update-domains, the latest setup under the lock and the latest teardown ended |

Edits (`AddDomains`, `DeleteDomains`, `ReplaceDomains`, `CreateNetwork`, `AddCidrs`,
`DeleteCidrs`, `DeleteNetwork`, `SetMode`, `Call`) change their file and queue in
one step, as a handler does up to its await. `Acquire` takes the lock; `Wipe`,
`Write`, `RestartDnsmasq` are `vpngw-update-domains.sh`; `MakeSet`, `Load`, `Attach`
the part of setup that lists matter to; `Destroy` that of teardown. `Fail` is a
command that fails or the 120 s limit, `ApiDies` the end of the API with all it
runs, `FlushDns` the restart anyone may ask for. A setup reads the mode when it starts
(`First`) and makes a set or not by that (`MakeSet`, `Skip`), whatever the mode is by
then. A mode change takes two turns of the lock, or three if the tunnel's interface is
there and fix-routes is run (`After`). The `Hook...` actions are the same scripts, command
by command, without the lock and without a place in the queue.

`ListText` has a text as the lines `split("\n")` makes of it, so that a missing last
newline is visible: the Python edits cut and join lines, one shell loop reads a
last line without newline and the other does not. What the code does line by line
is a `Loop` here too (`ReadLine` of `_parse_groups`, `DropLine` of `delete_domains`). `ListTextExact` is the
conjunction of four statements: `GroupsWhole`, `AddExact`, `DeleteExact` and
`NetworksWhole`. It is about an edit, so it is stated for the states in which one waits
for the lock.

### AwgProbes

`active`, `installed`, `choice`, `live` are the marker, the installed copy, the
choice and the config the tunnel's interface carries; `probe` is each request,
at the await it has come to; `temps`, `confs`, `routes` are temporary interfaces,
their files and host routes. `Look` decides by marker and choice, `AskUnit` and
`AskLink` ask whether the tunnel is up, `AddLink` and `Configure` set up an
interface, `AddRoute`, `Measure`, `DelRoute`, `Clean` are the body and the finally
clauses. The tunnel changes beside them in any order (`TunnelStops` to
`TunnelChosen`): what orders the scripts allow is the subject of the modules
above. `stale` is history: whether it has changed since the probe looked.

### XrayProbes and XrayText

`check` and `task` are requests and their probes; `listens` says which process
listens on a port, `running` and `files` what is there to clean up. `Enter` is a
place in the semaphore, `Launch` everything from the name of the config to the
first process (no await), `SidecarStarts` and `XrayStarts` the two starts, `Curl`
the verdict, `StopXray` and `StopSidecar` the end; `HardTest` follows a ping in
the same place. `Draw` is `_free_port`. Three things are faults, bounded by
`MaxFaults`: a port given out a second time before its first owner listens, a
fork that fails, a config that a refresh removes. `Reached` follows a
connection through what really listens, so a verdict can be about the wrong
node.

`XrayText` has an outbound as id, tag, protocol, dialer and mark; `Bundle` is
`find_proxy_outbound_bundle`, `Runtime` the outbounds of both runtime configs. The
loop over dialers is `Round`, repeated once more than there are outbounds
(`Chained`): a turn that goes on adds the tag of an outbound to those seen. What an
outbound needs (`Behind`) is the least set that is closed under dialing; the run
`probes` compares it with the transitive closure (`BehindCloses`).
A payload is its coding and its items (`Entries`, `Supported`). A name is spelled
out, because what is checked is where it is cut (`StableName`).

### HealthCheck

`conf` is `notifications.conf`, `put` what a request has truncated it for,
`flagged` and `stored` are the boot flag and the state file in `/tmp`, `at` is the
command a run has come to, `found` and `prev` its two states. `tried` and `told`
are history: the last mail a run tried to send, and the last one that arrived.
`Begin` to `Store` are the script from top to bottom, `Sends` is
`vpngw-send-email.py`, whose result nobody looks at; `Put` and `Write` are the
endpoint of the settings, cut where the file is empty. `Reboot` takes `/tmp` and the
run with it. What a run looks at is a free choice in each run (`Check`). A `/tmp`
that is full, so that the state cannot be stored, is left out, and so is an
operator who kills a run.

## 3. What each run checks

States are distinct states of the complete exploration. Type invariants are
proved (section 5) and not repeated in the runs.

| Run | States | Properties | What it shows |
|-----|-------:|------------|---------------|
| `select_overlap` | 79,561 | `RestConsistent`, `Terminates` | two workers select at once, the boot unit after each reboot, XRay dies, the host goes down; at rest a running tunnel is the chosen one, and every request is answered |
| `select_alone` | 82,735 | `MakeBeforeBreak`, `RunsTheActive` | one request at a time implements `ExternalTunnel`; XRay runs what `.active` names as long as no XRay process has died |
| `select_repair` | 283,841 | `SelectionRepairs` | after killed scripts, the bare restarts of the services page, the config switch and dead processes, one complete selection repairs everything |
| `routes_any` | 1,758,251 | `RestTraffic`, `PathsCarried`, `DnsStays`; `SetupsConverge`, `HostsRestricted` | from any possible tables, after one mode change traffic follows mode and choice through any order of calls and interface events; and two scripts or requests overlapping command by command: setups converge, and two undisturbed ones put the rules for hosts in order |
| `subs_overlap` | 83,418 | `ActiveExists` | two downloads in flight, names that share a prefix and a crash in any place: the active config is always there |
| `subs_alone` | 81,276 | `ListedIsThere`, `NoResurrection`; `LastMailTrue` | one request at a time, failures included: what a subscription lists exists and came from its source; or health checks whose mails are lost, with settings that change under them and a host that goes down at any command: the last mail tells the truth |
| `subs_deleted` | violation | `NoResurrection` | the finding of section 4 |
| `stats_overlap` | 1,394,759 | `NeverOvercounts`, `InForce`, `TotalsKept`, `GhostsGo` | the timer's snapshots beside those of polls and edits, XRay stopping and restarting, one killed script |
| `udp_associate` | 28,509 | `PutReady`, `AddressKept`, `AllEnd` | every interleaving of the four goroutines |
| `awg_library` | 2,253,415 | `ActiveThere`, `ActiveIsInstalled`, `SwitchTakes`, `ServedRecent`, `UploadUsable` | switches, uploads, deletions, selections, restarts and a kill in any overlap, with a lookup beside them; the adaptation of every text up to the bound, by upload and script |
| `lists` | 985,407 | `Regenerated`, `Served`, `NetworksLoaded`, `SetFollowsMode`, `Answered`, `RangesReturn`, `ListTextExact` | overlapping edits and mode changes under one lock, setups and teardowns of hooks outside it, a failing command or dying API, dnsmasq restarted and ranges downloaded beside them; every text and edit up to the bound |
| `probes` | 1,003,238 | `NothingLeft`, `OwnConfig`, `NoTwin`; `Isolated`, `AllStopped`, `ChecksEnd`; `XrayTextExact` | two AmneziaWG probes beside a changing tunnel, or two XRay checks of two nodes; every chain of outbounds, payload and name up to the bound |

### Bounds, and why they are enough

- `select_*`: `MaxRequests` (3 or 4), `MaxExits`, `MaxStops`, `MaxKills` bound how
  often something happens; how long anything takes is not bounded. Two workers
  and the boot unit give three scripts on two units, one more than there are
  units to fight over. (The order of the units, `vpngw-external-tunnel.service`
  before `vpngw-routing.service` before `vpngw-api.service`, keeps the boot unit
  from overlapping the API; the model does not rely on it.) Two or three configs, one of which does not render, give
  each of: no config, a good one, another good one, a bad one.
- `routes_any` needs no bound: its tables are finite. `marks` is counted up to 2,
  a duplicate, in the initial tables; setup can only bring it down. Of scripts
  that overlap there are two at a time, in any number one after another and from
  whatever the ones before have left, with one host: two are what a doubled rule,
  a swapped order or an answer out of date takes, and `RacesConverge` is proved
  for any number of them. Runs in progress when another begins may be at any
  command, so three in a chain of overlaps occur too.
- `subs_*`: two subscriptions (one is the other's prefix), two workers, one or two
  nodes, one or two URLs. A node and a URL more add names that no handler
  relates to each other.
- `stats_overlap`: two runners, one user, `MaxBytes = 2` bytes, `MaxEdits = 2`,
  `MaxStops = 1`, `MaxKills = 1`. Users never meet in the code except in the files
  they share, and `NothingCountedTwice` is proved for any number of them. Two
  bytes put a counter below, at and above the last value seen. What two
  writers leave in one file is the content of one of them or nothing that parses.
- `udp_associate`: four datagrams fill the channel, drain it and fill it again
  while the receiver takes one at any point; two replies take an address before
  and after. The theorems are for any number.
- `awg_library`: two workers, two names, two configs and the address of XRay, one
  viewer, `MaxRequests = 3`, `MaxKills = 1`. Three requests are a switch, an edit
  under it and another switch. `TTL = 2`, `Slow = 1` keep the order of the real
  values (600 s, at most 30 s), which is all that `TimeAssumption` asks; the
  theorems are for any values in that order. Texts of up to three lines of 18 kinds, with
  and without an `[Interface]` before them, hold a hook, another reading of it and
  the end of its section; `TextsUsable` is for any length.
- `lists`: two workers for one lock, a category beside the catch-all one, one
  domain, one network file, one CIDR, two ranges of which one is listed too; one hook,
  whose runs share `MaxRequests = 2` with the requests, so that a mode change or an
  edit meets one unlocked script and two unlocked scripts follow each other;
  `MaxFaults = 1`. The theorems are for any number of each. One fault is enough for
  each of: a failed command, a killed script, a dying API, a dnsmasq that does
  not start, a lost download. Texts of up to four lines (`MaxText`) hold a group, two
  entries of it and a blank; requests have up to two entries (`MaxRequest`). The
  theorem is for any lengths.
- `probes`: two probers, two configs, two requests and two changes or deaths; two
  checks of two nodes, one of which needs a sidecar, one place in the semaphore
  of each check, five ports of which one is the tunnel's sidecar's. Two checks
  of an Outline node draw four ports, one fewer than there are. One node
  answers and one does not, so a swapped verdict shows. Chains of up to three
  outbounds can be circular, dangling, or pass through one with a reserved tag;
  payloads have up to four items, blank lines among them; names are checked for
  subscription names of 1 to 60 letters and numbers of each number of digits. The
  theorems are for any tags and lengths, and for all numbers below 1000.

- `HealthCheck` (in `subs_alone`) needs no bound: one run at a time, a right
  password and a wrong one.

### Fairness

- `TunnelSelect`: every command of a script is eventually executed (`WF` per
  process), and the jobs systemd has begun finish, well or badly. Unit start
  timeouts and the API's own 40 s limit see to that. No fairness is assumed of
  requests, XRay's death, reboots or auto-restart.
- `XrayStats`: a script that runs takes its steps, and the timer's snapshot begins
  again (`vpngw-xray-stats-snapshot.timer` fires every minute). Nothing is
  assumed of polls, edits or XRay. `GhostsGo` holds with the timer alone.
- `UdpAssociate`: goroutines are scheduled and the idle timer fires. Nothing is
  assumed of the client or the server: `AllEnd` has to hold for a client that
  falls silent with both sockets open. The bound on datagrams and replies is what
  makes "the traffic ends" true.
- `Lists`: some script that can go on does; it ends by itself or by the limit of
  120 s. The timer fires again and goes on. Nothing is assumed of edits, of
  faults, or of which request gets the lock next: requests are finitely many,
  and `asyncio.Lock` is first come, first served.
- `XrayProbes`: some probe or answer that can go on does. Every command has a time
  limit, and a process that does not end is killed after 2 s. Nothing is
  assumed of faults.
- `RouteScripts`, `Subscriptions`, `AwgConfigs`, `AwgProbes` and `HealthCheck` state no
  liveness.

`CHECK_DEADLOCK FALSE` is set where the system really stops: the bounds of a
behaviour run out with every request answered, or an association ends.

## 4. Where the code and its documentation disagree

**`subs_deleted`.** The dashboard asks "Delete subscription ... and its generated
configs?" (`api/static/js/pages/dashboard.js:1449`). A refresh whose download
ends after the deletion writes the configs and the state again
(`api/routers/xray_client.py:504`): they then belong to no subscription.

Disagreements that no run states, because a look at one handler shows them:

- `README.en.md:10` says "Only one external internet tunnel is active at a time."
  `POST /vpn/restart` (`api/routers/vpn.py:547`) restarts `vpngw-vpn` whatever the
  stored choice is; with XRay chosen and running, both tunnels are active.
- `README.en.md:238` calls `DNS_UPSTREAM` "Upstream resolvers routed through the
  selected external tunnel". Only `vpngw-fix-routes.sh` adds those routes; the
  teardown endpoint removes them, and the setup endpoint after it does not
  bring them back while the tunnel stays up (`vpngw-setup-routing.sh:229`).
- `README.en.md:193` says of a refresh "Standalone configs are not affected." The
  refresh of `s` removes every file that matches `s-*.key` and was not just
  written, uploaded ones included (`api/routers/xray_client.py:534`).
- `vpn.py:665` refuses to delete "the active Amnezia config", but the one a switch
  in flight is about to make active is not marked yet. `ActiveThere` says what
  remains true.
- `vpn.py:616-617` empties the cache so that the old country is not shown; a lookup
  that straddles the switch fills it again with the old address. `ServedRecent`
  says what remains true.
- The header of `vpngw-update-domains.sh` (line 6) says that operators add and
  remove a category "atomically"; at each run the files of all categories are
  removed before the first is written again.
- "Sends email alert on state transition", says `vpngw-health-check.sh:3`. The mail
  about a new problem is tried once, a failure is ignored (line 131), and the state
  is stored all the same (line 143): no later run sends it, and the problem is often
  just what keeps the mail from arriving. `LastMailTrue` says what remains true.
- `README.en.md:182` and `vpngw-adapt-amneziawg.py:5` say that an adapted config
  has `Table = off`; a text that has another `Table` keeps it.
- "Idempotent — running it on an already-adapted config is a no-op", says
  `vpngw-adapt-amneziawg.py:10`. So it is for what the script itself has made, and an
  upload changes nothing in what an upload has made. Across the two it is not: the
  script tests case-sensitive prefixes (lines 75-83), the upload whole keys in lower
  case (`vpn.py:202-210`). An uploaded `table = auto` gets a further `Table = off`
  from the script, and `dns = ...`, which the script keeps, goes with the upload.
  `UploadUsable` says what remains: what the script has made an upload leaves as it
  is when the two read its lines alike.

Other behaviour met while modelling, which no document contradicts:

- *Selector.* An activation looks whether XRay `is-active` after it has written
  `.active`. An XRay that is being auto-restarted with the old config is not, and
  a start joins the start in progress: it goes on with the old config.
  `RunsTheActive` is therefore stated for the time before any XRay process has
  died. `vpngw-select-external-tunnel.sh:65` stops Amnezia on the strength of a
  start that, with `Type=simple`, only says that the launcher was forked: if XRay
  dies right after, there is no tunnel until auto-restart.
  `vpngw-external-tunnel.service` selects none when it stops, so an orderly
  reboot forgets the choice while a power loss keeps it.
- *Routing.* Teardown leaves the RETURN rules for private networks, which setup
  adds; setup finds them there. `DNS_UPSTREAM` has one default in setup and
  fix-routes and another in other scripts; the model takes it as set.
- *Overlapping scripts.* Two runs of setup can leave the rules for blocked hosts
  doubled, or REJECT above ACCEPT. A blocked host then loses the private networks
  too, which "restrict one LAN host to private networks" (`services/hosts.py:275`)
  grants it, though it never gets to the internet (`SetupsConverge`). Each run
  takes one copy of a rule out, so one later run need not repair it; two do
  (`HostsRestricted`), as long as no three runs overlapped at one time: those can
  leave three copies. With a doubled rule, a teardown fails at `ipset destroy`
  under `set -e` and the restrictions survive it, while
  `vpngw-setup-routing.sh:107-109` says that a teardown lifts them. A setup whose
  `ip link` was answered before the tunnel came up can remove marks that the hook's
  run has just added, but then that run is not over. After a teardown the API
  makes the set anew for whoever lists or blocks hosts, and shows a host as
  blocked that no rule stops until the next setup.
- *AmneziaWG.* `[interface]` in lower case is accepted by an upload but not adapted.
  A ping on the tunnel's own interface counts handshake and bytes since the
  tunnel came up, so it can be good though the server has fallen silent. An
  interface that a dying API leaves keeps its keys, and may take the session
  when its config is used later; so do two probes of one config at once. Host
  routes of two tests can be each other's, which does no harm: ping and curl
  bind to their device.
- *Lists.* A setup reads the mode once (`vpngw-setup-routing.sh:31`) and makes the set
  later (lines 199-200). One that runs outside the lock and has read split may do so
  after a mode change has written another mode and torn down: the set then stays,
  with nothing running and nothing failed, until the next teardown, and the networks
  and ranges in it with it. `SetFollowsMode` says so: it excludes exactly a latest
  teardown that passed a setup about to make the set, and without one the set is
  there in split mode only. After a failed or killed update-domains the same addition is refused,
  since the list has the domain already, and nothing is regenerated until
  another edit. The network endpoints answer ok though setup failed. Addresses
  of deleted domains and deleted CIDRs stay in the set until a teardown. A
  restart is reported as a success while dnsmasq is down. A mode change drops
  the downloaded ranges until the timer fires. `while read` in setup drops a last
  line that no newline ends. A script's time limit kills the shell, not its
  children.
- *XRay probes.* `gather` passes on an unexpected exception while other probes go
  on; the sidecar of the one that raised stays. A port given out twice can make
  one probe report another's node, in a reply that says `"isolated": True`. Each
  check has a semaphore of its own, so two checks double the number of XRay
  processes.
- *Texts.* A chain of dialers through an outbound tagged proxy, direct or blocked
  gives a runtime config with one tag twice, which XRay refuses and the upload
  accepts. Base64 in several lines, or of JSON, yields no nodes. Generated names
  collide for subscription names of 61 letters and more; from 45 on the digest
  is cut. The URL of a subscription is unquoted again each time its source is
  read.
- *Subscriptions.* A failed addition restores the source it read before its
  download, over one an overlapping addition of the same name has stored since.
- *Statistics.* A counter that was reset and grew past `last_seen` between two
  snapshots looks as if it had never been reset; the bytes up to `last_seen` are
  lost. The error is on the low side, which is what `NeverOvercounts` says. Two
  edits of `clients.json` at once undo one another
  (`vpngw-xray-add-client.py:108`, no lock); `XrayStats` takes edits one at a time,
  as one operator makes them.
- *Outline helper.* A reply delivered between the removal of the old client address
  and the second send goes to the older address: the last conjunct of
  `AddressKept` is exactly that window. A CONNECT ends with the first of its two
  copies, so a client that shuts down its sending side first loses the rest of
  the answer.

## 5. Proofs

All theorems are checked by TLAPS with no step left open. They use the
assumptions that the modules name (`ProcAssumption`, `ConfigAssumption`,
`RequestAssumption`, `NamesAssumption`, `TimerAssumption`, `BoundsAssumption`,
`AddressAssumption`, `TimeAssumption`, `ContentAssumption`, `AbsentAssumption`,
`ProbersAssumption` and their like), which say what kind of thing a constant is and
no more, and no finiteness or bound on the number of processes, configs, users
or messages.

**TunnelSelect.** `TypeCorrect` needs one fact beside the types: only a script
that chooses a tunnel reaches the commands that write the choice
(`WritersChoose`). `OverlapConsistent` says that overlapping selections, reboots
and XRay exits leave a consistent gateway, under `SelectionsOnly`: the requests
are selections that do not move `.active`, and no script is killed. The state at
rest is not inductive; `OverlapInv` says for every state why a running tunnel is
accounted for: it is the choice, or a script is about to choose it, or a script
that chose otherwise is still on its way to stop it. The proof must show that
whenever the writer of a choice overtakes another script, one of the other
alternatives takes over, including for a unit that is merely starting
(`XrayGood`: XRay is never started with a config that does not render, so it is
never left in auto-restart). The hypotheses are needed: `select_repair` has
behaviours with kills and bare restarts that are inconsistent at rest until the
next selection. `XrayRunsTheActive` is about the config instead of the tunnel:
under `SelectionsAlone` (one request at a time, none but selections and
activations, no kills) `ActiveInv` says that at most one process is busy, that
XRay is starting only while a selector waits for it, with a config that renders,
and that a running XRay differs from the marker only while the script that is to
restart it has the commands for it still ahead (`Ahead`).

`SelectionsMakeBeforeBreak` is the refinement of `ExternalTunnel`, under the same
`SelectionsAlone`. The initial state maps to the abstract one (`InitRefines`), and
every command of every script is a step of the abstract selection or leaves what
it shows unchanged (`StepRefines`). What has to be known for the commands that take
a tunnel down is that the one put up before them is there: `AloneInv` says that at
most one process is busy and what it has done so far (`Placed`), `WaitedInv` that a
tunnel is only starting while somebody waits for it. `SelectionsRepair` needs
less, only that requests come one at a time (`OneAtATime`): kills, bare restarts
and XRay's own exits may have left any state, and a selection that runs to its end
from there still leaves a consistent gateway.

**RouteScripts.** The scripts are functions, so most of the work is lemmas about
them: each maps well-formed tables to well-formed tables (`TablesTyped`); setup
turns any tables that are `Ready` into `Good` ones, teardown makes tables ready,
and removing an interface keeps good ones good. `Ready` is what setup relies on
without checking: in split mode the LAN default route, in the other modes that
no fwmark rule is left. `Sound` (ready once anything
trustworthy has run, good while installed) is inductive and implies
`TrafficFollows` and `TrafficCarried`. The history variable is what makes this
true for any initial kernel: nothing is claimed before the first mode change.
`ScriptsIdempotent` compares a second run of setup or of fix-routes with the first, field
by field, and is about the tables alone, so no run repeats it; it is stated for tables
without doubled mark rules, since a run removes only one of two copies.
`ResolversStay` is an action property; its invariant `DnsInv` is that, once the kernel
can be trusted, the mode that sends everything through the tunnel has no routes of
its own for the resolvers, so that there is none for its scripts to take away.

**RouteRaces.** `RacesConverge` is about any number of runners. Nothing about the
rules is inductive while setups overlap: each takes out what another has just put
in. `RaceInv` says instead, of every piece of the result, who is going to provide
it: as long as only setups run, the rule for blocked hosts is there or one of them
is still to insert it, the marks likewise, the fwmark rule and the set exist or one
is still to create them, dnsmasq fills the set or is still to be restarted, and
table 100 leads where the interface says. A run that gives up, because what it
was about to create exists by now, was overtaken: the one that created it has got
further and goes on to the end, or has ended and left everything in place. When all
are at rest nobody is left to provide anything, so all is there.

`HostsGetRestricted` is the only theorem about races with a bound on them,
`AtMostTwoRun`: there are no more than two runners, each of which begins any number
of runs one after another. `HostsInv` counts each rule's copies together with the
insertions still to come, keeps the sum at two or less, and follows a run that has
been alone since its first command: it leaves one copy fewer of each rule, so what
a second such run leaves is tidy (`Tidies`, `Tidy`). The bound is needed. Three
overlapping runs can leave three copies of a rule, of which two later runs take
out only two; TLC finds that behaviour with a third runner.

**Subscriptions.** `ActiveAlwaysExists` is inductive by itself given the types:
every handler that removes or overwrites reads the marker in the same step.
`ListsWhatIsThere` is proved for one request at a time, no shared prefix and no
crash (`Alone`), through `Orderly`: at most one download is in flight and it is of
the stored source; entries are the subscription's own; what it lists came from
its source or, while an addition is in flight, from the one a failure will put back. `NothingResurrected` is
about overlaps: requests may run over one another in any way, prefixes be shared
and the API die anywhere. Its one hypothesis is about the source alone
(`RemovedAtRest`): it is not removed under a download of its subscription, be it by
a deletion or by another addition that fails. The code does not see to that, and
`subs_deleted` is what follows; the theorem says that nothing else brings a config
back. `Sourced` is its invariant, that what is being downloaded has a source, which
need not be the one it is downloaded from. `NamesAssumption` says for it that no URL
equals the mark for configs a user has uploaded.

**HealthCheck.** `LastMailIsTrue` and `MailsAreNotRepeated` follow from `HealthInv`: as
long as the host is up, the state file says PROBLEM exactly if the last mail tried
was an alert, except in a run that has sent a mail and not stored the state yet, in
which what the run has found takes the place of the file. That a reboot forgets
the state does no harm to this, because the first mail after it is always another.

**XrayStats.** `NothingCountedTwice` holds with any number of overlapping
snapshots, of restarts and of killed scripts. Every entry, in a file or in the
hands of a script, is read as a claim about a moment: when the XRay that started
at `base` had counted to `last`, the total was at most `base + last`. `Past` says
that each of these moments is not in the future, and that the sample a script
holds is no older than the entries it has read. The second part is the order of
two lines in the script (totals first, counters second), and the mutant that
swaps them breaks the theorem's property. Merging then preserves the claim,
whether the counter grew or was reset in between. `ServesTheClients` rests on
`Pending`: as long as no script was killed, XRay serves others than the file lists
only while an edit is running; whichever way the snapshot inside an edit ends,
the last thing an edit does is to restart XRay with the file as it is.
`TotalsNeverFall` holds for every client that is not removed, until two runs overlap:
`Floors` says that only one runner is at work and that what it carries,
from what it read to what it has merged, is no less than what the file holds
(`MergedGrows` is the arithmetic of one merge).

**UdpAssociate.** `PutNeverBlocks` and `AddressNeverLost` follow from `AddressInv`: only
one goroutine sends addresses, so what is in the channel is always the last
address stored (`Newest`), and no relay has run before the association started
(`NotYet`).

**ExitAddress and AwgConfigs.** `ExitServedRecent` is proved for tunnels that move
in any way: `Dated` says of every lookup in flight and of the cache that the
probe an address came from is no older than the time noted for it. Every step of
`AwgConfigs` is a step of `ExitAddress` or leaves its variables alone
(`LibraryMovesTunnels`, `Spec => ExitSpec`), so the theorem carries over
(`LibraryServedRecent`). The library's own invariant is `Typed`, `Jobbed` (what a
worker holds at each command), `Whole` (only a file being uploaded is truncated,
and its upload is in flight) and `Safe`, the conjunction of what the properties
need: `Sound` (the config of a switch is there unless an edit was noted), `Single`
(unless an overlap was noted there is one switch), `Installing` (what a switch has
done so far when nothing was noted), `Undisturbed` (the same for a switch that
stayed alone, whatever came before it). A step keeps `Safe` in one of three ways:
beside every switch (`BesideKeeps`), as the next command of one (`CommandKeeps`),
or as its end (`EndKeeps`). `ActiveStays`, `ActiveInstalled` and `SwitchesTake`
follow; `SwitchTakes` is an action property.

**Lists.** `Stages` says what each command of a script may hold.
`DomainsRegenerated` and `DomainsServed` rest on `Rewriting`: while one run of
update-domains is under way, a category that is no longer to be wiped or
written is as listed, or an edit of it waits. `NetworksInForce` rests on
`Loading`, the same for the set and a setup under way that nobody has torn down, and on
`Skipping`: a setup that has found a mode without a set, while the mode is split by
now, is followed by that of the mode change. Setups beside the lock only add what
is listed, and a teardown beside it is noted in `last`. `SetOfTheMode` needs
`Outlived`: without faults, in a mode other than split a mode change is still to tear
down, or there is no set and nobody about to make one, unless the latest teardown
passed somebody who was. The lock enters through one fact, that of the requests
only the holder's script is beyond waiting; hooks have no such fact, and there may be
any number of them.

**Loops.** A text has any length, so what a loop does to it is shown by induction. The
induction theorems of the library take an operator as a parameter, which the provers
cannot instantiate, so induction is proved anew for sets: every nonempty set of
numbers has a least element (`Least`), hence a set with 0 and all successors is all
of them (`Counting`), and likewise for sequences that grow at their end (`Growing`).
Each use puts what is to be shown into such a set. A `Loop` is defined by a
recursive function: `TurnsExist` builds one, `TurnsSame` shows that there is no other,
and `LoopStart` and `LoopTurn` are the two equations from which all else follows.
`RepeatStart` and `RepeatTurn` are theirs for a loop without lines.
The rest is the algebra of `Only` and `Count` (of texts put together, of what is
selected twice) and of `Stripped`.

**ListText.** `TextsExact` is for files and requests of any length. The algebra of
`Only` carries most of the edits. `ReadingReads` is the invariant of the loop in
`_parse_groups`, that the groups done and the present one are what has been listed so
far; `DropsOnce` that of the loop in `delete_domains`, that a name is still to be
removed exactly if the lines so far had no copy of it.

**AwgText.** `TextsUsable` is for texts of any length. `UploadUsable` promises two
things, and the lemmas are about any way of reading lines that takes headers, hooks
as they are usually written and blank lines for themselves (`Reader`); `BothRead` says
that the upload's and the script's are such ways. That a text, once adapted, is usable rests on `Follows`, the invariant of two
loops in step: one adapts a text, the other reads the first `[Interface]` of what has
been written so far. The reader is before, in or after that section when the loop is;
what it has read in it holds the hooks the loop has seen, no more often than the
provider set them; and once the loop has closed the section, the reader has every
hook. That adapting it again in the same reading changes nothing, and
in the other reading nothing if the lines of the text mean the same in both (`AlikeAdapted`), rests on `Settles`: at each line, what
has been written takes the loop to the state it is in, and writes itself. The
critical case is the header that closes the section (`ClosedTwice`): the hooks and the
blank line that the first pass adds must be ones the second finds and does not add
again. What ends the text, hooks without a header after them and the blank lines
that `rstrip` takes away, is apart (`FinishedSettles`, `AdaptedSettles`, `EndGood`).

**AwgProbes.** `Local` says of each prober what its own variables may be at each
await: which interface it has, what that interface carries, that a result is of
its config or the tunnel has changed. `Held` says that, as long as no API has
died, every route belongs to a probe at the awaits between adding and removing
it. `ProbesLeaveNothing`, `ProbesMeasureTheirConfig` and `NoTwinOfTheTunnel` follow.

**XrayProbes.** `Has` says of each probe which of its processes and files may be
there at each await, `Listens` that a process listens only after it has come up.
These hold with any fault and give `ChecksLeaveNothing`. `Owns` says of a probe that
no fault has hit that the ports it waits for are free, that what listens on them
later is its own, and that its verdict is right; `Apart` that no other probe waits
for its ports. A port given out twice marks both probes it was given to, so the
rest of the invariant stays true of all others, and `ChecksIsolated` follows for
any number of checks, nodes and ports. The proof uses that there are more free
ports than probes draw, which is what the guard of `Launch` says.

**XrayText.** `TextsExact` is for any tags and inputs of any length; `EveryConfigRuns`
and `NameTellsPlace` say two parts of it without the bounds of the inputs. The loop
over dialers keeps `OnTheWay`: what has been collected is a way from the proxy
(`Path`), each outbound on it the one that the one before dials through, none twice
except the proxy itself, which may come back at the end because the code does not put
its tag among those seen. `RoundKeeps` shows that a turn keeps this, and that it
refuses a config only when there is a reason: a way that cannot go on leads to a
dialer that is not there (`PathDangling`) or to an outbound behind itself
(`PathCircular`). A way is no longer than there are outbounds, and one
(`PathBounded`, by counting), so the loop ends within its turns; a way that ends at an
outbound without a dialer has all that the proxy needs and nothing else
(`PathComplete`). `TagsAssumption` says that no tag is empty, which the code takes
for none. The nodes of a payload follow from the algebra of `Only`. Of names the
proof follows the lengths: with up to 60 letters the three signs after the
subscription's are before the cut, and they tell the number, since a dash is no
digit (`PrefixTells`); with up to 44 nothing is cut (`NameIs`).

## 6. What is only model-checked

- Liveness: `Terminates`, `GhostsGo`, `AllEnd`, `Answered`, `RangesReturn`,
  `ChecksEnd`. The prover does not reach liveness under fairness, nor ENABLED.
- That `Behind` is the transitive closure of dialing, for every config of up to three
  outbounds; the theorems use its definition as the least closed set.
- `HostsRestricted` is a theorem for two scripts at a time; with three it is false
  (section 5). `SelectionRepairs` and `TotalsKept` are theorems under the conditions
  under which the runs check them, `NoResurrection` under a weaker one.

## 7. What is not modelled, and why

- In `RouteScripts`: a choice file that is missing or invalid, for which setup and
  fix-routes ask which unit is active (`vpngw-setup-routing.sh:43-49`,
  `vpngw-fix-routes.sh:34-40`); `DeviceOf` takes the choice as stored.
- In `TunnelSelect`: two `printf > file` at the same moment; they end as the content
  of one of the two.
- In `RouteRaces`: modes other than split, a choice that changes while scripts
  overlap, the rules only ever appended, and the set of recently active hosts.
- The list of LAN hosts and the fingerprint worker: one table under a lock, rebuilt
  from what the network answers.
- In `XrayStats`: a render that fails, `--purge-user`, share URLs and QR codes, the
  first installation.
- In `Subscriptions` and `XrayText`: the fields of one share and their defaults,
  the text of a subscription's source, the device id and the headers sent with
  it. Names are stable functions of the subscription and the node's position.
- In `AwgConfigs` and `AwgProbes`: the fields of a config beside those the
  adaptation reads; how speed is computed; selections that fail, and
  `POST /vpn/stop` under another choice (`vpn.py:539`). A unit job is one step there.
- In `XrayProbes`: configs that do not parse and binaries that are missing
  (`xray_client.py:586-605`): `Isolated`'s "an error means that the config is gone" is
  about configs that can be tried.
- In `ExitAddress`: the country and provider that go with an address, and the
  status queries that only read the host.
- In `Lists`: the addresses that dnsmasq resolves into the set, and the sources'
  own format.
- In `UdpAssociate`: CONNECT, the SOCKS handshake, packet formats and ciphers.
- In `HealthCheck`: what makes up a problem, and the test mail.
- OpenVPN: planned (section 8).
- Several default routes, or a LAN interface that changes its address at run time:
  the scripts and the models assume one LAN gateway.
- `vpngw-fix-amnezia-routes.sh` and `vpngw-watch-amn0.sh`, the predecessors of
  `vpngw-fix-routes.sh` and `vpngw-watch-vpn.sh`; no hook or endpoint runs them.
- The web UI, the mobile app, packaging, installers and CI keep no state of the
  gateway. The HTTP layer filters and formats.

## 8. Plan

Done so far: the selector, the routing scripts, the two config
libraries, the exit address, lists and lock, both kinds of probes, the texts,
the counters, the UDP relay, routing scripts that overlap, the access of
hosts and the health check. What is left, most important first:

1. `OpenVpn`: profile, marker, unit, and the hooks' own rules and routes.
2. CONNECT and the control connection of the Outline helper, composed with the
   life cycle of the XRay unit that starts it.

Proofs to add: theorems beside each new module. Every property of the present runs but
those of section 6 is a theorem.
