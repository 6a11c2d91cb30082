# WP-Robot: models and proofs

TLA+ models of the desk robot in `src/`, the runs of TLC that check them on small instances,
and theorems that TLAPS proves for every value of the constants. The robot runs on a dual-core
SoC: Linux on the big core takes pictures, finds a face and keeps the robot's moods; FreeRTOS on
the small core moves a servo, after the face in one of its two firmwares, draws on an OLED and reports
a GPIO event; kernel modules serve a key, a timer and character devices.

- [Inventory](#inventory)
- [Modules](#modules)
- [Runs](#runs)
- [Fairness](#fairness)
- [Proofs](#proofs)
- [What the code does not do](#what-the-code-does-not-do)
- [Not modelled](#not-modelled)
- [Plan](#plan)

## Inventory

### The parts and how they interact

    big core (Linux, src/Robot)                      small core (FreeRTOS), one firmware of two
    main() -- thread pool -- video_capture ----.
                  |    |        '-- middleware |   (VI - VPSS - VENC - RTSP)
                  |    |---- mailbox_comm <-- gFace_data
                  |    |        '-- ioctl --[slots, spinlock, interrupts]--> prvQueueISR (in both firmwares)
                  |    |                                                       '-> queue -> mailbox_task
                  |    |---- mood_sys_update --.
                  |    |---- mood_sys_get_frame +-- mood graph -- frame files
                  |    '---- get_activate_thread
                  '-- SIGINT/SIGTERM -> bExit    kernel modules: key, tasklet, timer, character devices
    camera-64-3: main() -- middleware -- VideoCapture -> RTSP stream

    firmware Robot/comm_main.c:              GPIO edge --> prvDetectISR --> gFreertos_Data --> mailbox_task
                                             check_task --> the pins the big core switches, then oled_task
                                             oled_task --> I2C --> OLED, and PWM 10: the servo sweeps
    firmware freertos/duo_pwm/comm_main.c:   mailbox_task --> gLinux_Data --> servo_task
                                             servo_task --> PWM 2: the servo follows the face

| component (source) | state | operations | hard behaviour | what makes it correct |
|---|---|---|---|---|
| **thread pool** (`Robot/src/wp_thread_pool.c`) | mutex, condition variable, task list, `num`, `total_num`, `busy_num`, `shutdown`, `tid[]` | `thread_pool_init`, `task_create`, `thread_pool_routine`, `thread_pool_stop` | interleaving of main and workers; the decision to leave is taken in one critical section and carried out in the next; the signal is sent after the unlock; calls that fail; spurious wakeups; `total_num` read without the mutex while joining | counters agree with the threads; tasks run once and in order; no task sleeps; shutdown drains the queue and joins every thread |
| **mood graph** (`Robot/src/wp_mood_sys.c`) | list of moods, edge lists that name moods by id, `gMood_Num` | `mood_create`, `mood_destroy`, `mood_bind`, `mood_unbind`, `mood_set_property`, `mood_increase`, locate functions | ids are list positions and shift when a mood goes; edges are stored twice; allocations fail in the middle | ids find one mood; every edge has its partner; callers see a symmetric relation on names |
| **frame configuration** (`mood_get_frame_config`) | group bits, frame counts and addresses of one mood | one call per new mood | ten turns over eight groups; bits written through an eight-byte word; uninitialised memory | group bits and counts say what the files say |
| **robot tasks** (`Robot/src/main.c`) | `bExit`, what each task holds, the moods' status | the five tasks, the signal handler | the vendor's calls may fail anywhere, with four labels to fall through; four loops stop by one flag | what was built is given back, in order, on every path, but for one image and one `CVI_SYS_Init`; a signal stops everything |
| **mailbox** (`comm_main.c`, `mailbox_comm`) | slots shared by two cores, spinlock, pending interrupts, RTOS queue, `gFreertos_Data` | send with up to ten attempts, interrupt handlers of both cores, `mailbox_task` | two cores and three contexts; slots emptied without the lock; full slots, full queue, timeouts, repeated commands, a lock that gives up | no message is lost, stranded, overwritten or handled twice; data and events arrive |
| **key driver** (`drivers/key/key.c`) | character device, GPIO, interrupt, timer | load, unload, interrupt handler, timer function | load and unload race with the interrupt and with a timer function on another CPU | nothing remains after unload or a failed load; the last position of the key is seen |
| **middleware** (`cvimpi/include/utils/middleware_utils.c`) | what the chain VI, VPSS, VENC, RTSP has been given | `SAMPLE_TDL_Init_WM`, `SAMPLE_TDL_Destroy_MW`, `SAMPLE_TDL_Send_Frame_RTSP` | nine stages of which each may fail, some half-way; labels that fall through to each other | no stage loses the one it stands on; what stays behind is known |
| **camera program** (`linux/camera/camera-64-3.c`) | handles, frame, stream, `bExit` | `main`, `VideoCapture`, the signal handler | a middleware that failed is used; a turn of the loop ends at one label from everywhere | one frame and one stream at a time, both gone before the middleware; a failure ends the program |
| **servo and PWM** (`freertos/duo_pwm`) | the PWM registers of its channel, the angle | `pwm_init`, `set_angle`, `servo_control`, `servo_task`; the sweep of `oled_task` in the other firmware | a position packed by the other core, in copies that may be old when they are used; `set_angle` stops the channel and starts it again | the angle stays within its limits and follows the face; when the face rests the servo does |
| **software I2C, MPU6050** (`freertos/duo_oled/duo_sort_i2c.c`, `duo_mpu6050`, `duo_gpio`) | direction and data bit of two pins | start, stop, bytes, acknowledge; register reads and writes | bytes that are not answered, after which the caller goes on; a pin read by making it an input | a register changes only to what was written to it; the bus is free after each call |
| **OLED** (`freertos/duo_oled/duo_oled.c`) | the buffer, the display's memory and cursor | clear, fill, image, number, update | images over two pages and over the edge; transfers that are lost | the buffer is the picture, the display shows the buffer |
| **register check** (`freertos/duo_utils/duo_check.c`) | a stack of registers with expected values | push, run, destroy | the big core switches the pins meanwhile, and back | the pins are used when each has been seen right |
| **timer driver** (`drivers/timer`) | timer, period, open files | load, unload, three `ioctl`s, timer function | a function that re-arms its timer against `del_timer`; programs side by side; an expiry computed before another's | the timer does what the last call said; what a race leaves is known |
| **tasklet driver** (`drivers/tasklet`) | as the key driver, and a tasklet | load, unload, interrupt, tasklet, timer function | three halves on different CPUs, of which unload waits for two | nothing but the tasklet's race remains; the key's last position is seen |
| **character and platform drivers** (`drivers/chardev`, `platform1`) | `struct cdev` and its references, open files | init, exit, probe, remove, open, release | two modules in any order, unloaded under an open file | a file keeps its module's memory; what a failure leaves |
| **utilities** (`Robot/src/wp_utils.c`) | none | `file_search_data`, `extract_first_int`, `face_filter`, `wp_set_bit` and others | block boundaries, byte counters | the result meets its description |
| **emotion queue** (`study/wp_mood_system/wp_mood_queue.c`) | circular byte queue | init, write, read | full and empty look alike at the front | a bounded sequence of bytes |
| **device-tree, GPIO and fixed-number drivers, UART, earlier versions, demonstrations, vendored code** | | | | see [Not modelled](#not-modelled) |

`PROJECT.json` lists every component with its sources and status, and under `hazards` the lines
where each one can go wrong in a way a test hardly reaches, with the property that covers it.

### How they use each other

* `main` creates the pool with `thread_pool_init`, hands it five tasks with `task_create` and calls
  `thread_pool_stop` at once, which waits for the tasks to leave their loops.
* `video_capture` writes `gFace_data`, `mailbox_comm` reads it and sends it through the mailbox;
  both, and the two other loops, watch `bExit`, which the signal handler and a failed frame set.
* `mood_sys_get_frame` builds the mood graph (each `mood_create` reads a frame configuration), then
  asks for the READY mood and follows the pointer.
* The small core's `mailbox_task` stores the address and the data of a command. In the firmware of
  `freertos/duo_pwm` `servo_task` reads the data; in that of `Robot/comm_main.c` the reply of a command
  carries the GPIO event back.
* `video_capture` first brings the middleware up and last takes it down; between the two it uses the
  chain. The camera program does the same in `main`, without looking at the result.
* `mood_get_frame_config` searches its files with `file_search_data` and converts what it finds with
  `extract_first_int`; `video_capture` takes the face `face_filter` picks.
* `Robot/comm_main.c` creates `mailbox_task` and `check_task`; the latter waits for the pins that the big
  core switches, and then creates `oled_task`, which draws and lets a servo sweep. `freertos/duo_pwm`
  creates `mailbox_task` and `servo_task`. Each firmware turns one servo.

## Modules

| module | of | kind |
|---|---|---|
| `ThreadPool` | `wp_thread_pool.c` | state machine: main and the workers, one step per critical section |
| `TaskPool` | the pool as its client sees it | abstract specification: a bounded first-come-first-run queue before a bounded number of servers |
| `MoodGraph` | `wp_mood_sys.c` | state machine: one step per call, lists and ids as in the code |
| `MoodRelation` | the mood graph as its callers see it | abstract specification: moods by name, a relevance per unordered pair, the return codes |
| `FrameConfig` | `mood_get_frame_config`, `wp_set_bit` | state machine: one step per turn of the loop |
| `Mailbox` | `comm_main.c`, sending loop of `mailbox_comm` | state machine: three contexts on two cores |
| `RobotTasks` | `main.c` | state machine: the five tasks, one step per call |
| `Middleware` | `middleware_utils.c` | state machine: one step per vendor call, error label and destroying call |
| `RobotProgram` | `main.c` with the middleware | composition of `RobotTasks` and `Middleware`, which implements `RobotTasks` |
| `Camera` | `camera-64-3.c` | state machine on `Middleware`: main, its thread, the signal |
| `KeyDriver` | `drivers/key/key.c` | state machine: load, unload, interrupt, timer, clock |
| `TaskletDriver`, `TimerDriver`, `CharDrivers` | `drivers/tasklet`, `timer`, `chardev` and `platform1` | state machines: load, unload, the halves of the driver, programs with the file |
| `Servo` | `duo_pwm.c`, the packing in `main.c` | state machine: position words, and the turns of either firmware's task at its servo |
| `SoftI2C` | `duo_sort_i2c.c`, `duo_mpu6050.c`, pins of `duo_gpio.c` | state machine: one step per pin access, against the device |
| `CheckStack` | `duo_check.c`, `check_task` | state machine: the stack, and the pins |
| `Oled` | `duo_oled.c` | state machine: drawing calls, transfers |
| `PixelScreen` | the buffer as its callers see it | abstract specification: a screen of pixels |
| `FileSearch`, `Utils` | `wp_utils.c` | state machines: one step per block, character, face |
| `MoodQueue` | `wp_mood_queue.c` | state machine: one step per byte |
| `ByteFifo` | the queue as its callers see it | abstract specification: a bounded sequence |
| `MC...` | | the instances TLC checks |
| `ThreadPoolProofs` | `ThreadPool` with the refinement of `TaskPool` | theorems |
| `MailboxProofs` | `Mailbox` | theorems |
| `MoodProofs` | `MoodGraph` with the refinement of `MoodRelation`; `FrameConfig`, `FileSearch`, `Utils`, `MoodQueue` with that of `ByteFifo`; `MCMoods` | theorems |
| `MiddlewareProofs` | `Middleware`, `Camera` | theorems |
| `RobotProgramProofs` | `RobotTasks`, and `RobotProgram`, which implements it | theorems |
| `DriversProofs` | `KeyDriver`, `TaskletDriver`, `CharDrivers`, `TimerDriver`; `MCDrivers` | theorems |
| `I2cProofs` | `SoftI2C` | theorems |
| `SmallCoreProofs` | `Servo`, `CheckStack`, `Oled` with the refinement of `PixelScreen`; `MCSmallCore` | theorems |

The `map` of `PROJECT.json` names the source lines of every definition.

**ThreadPool.** `mutex` is explicit: `LoopLock`, `WokenLock`, `SettleLock`, `LeaveLock`, `CreateLock`
and `StopLock` acquire it, and the step that follows is the critical section up to the unlock. `pc`
names the place of a worker in `thread_pool_routine`: `check` is the test of the queue, `wait` the
wait on the condition variable, `run` the task, `settle` the section in which the worker counts
itself idle and decides whether to leave, `leave` the later section in which it counts itself out.
`mpc` does the same for main. A failed `malloc` (`Refuse`) or `pthread_create` (`SpawnFails`) is a
choice. `accepted`, `started`, `phantom` and the three counters of bounded events are history.
Critical sections do not overlap and the code touches the shared fields outside of one only while it
joins, so this granularity loses no interleaving; the join loop reads `total_num` in each of its steps.

**TaskPool** is refined under `waiting <- queue`, `active <- the tasks of workers in run`. What a
client may rely on is nothing more than that: submit at most once, start in turn, finish.

**MoodGraph.** The list is a sequence of records from `stMood_List` on; edges are sequences from
`head` (new edges go to the front). Create, destroy and the two-sided unlinking follow the code,
the return codes included. Values and relevances, floats in the code, are integers in units of
1/`Unit`. Calls do not overlap: one task builds the graph. `mood_bind` of a mood with itself is
excluded by `MoodAssumption`, as nothing calls it so. **MoodRelation** is refined by forgetting ids.

**FrameConfig.** `group` is the set of its bits, `count` the array of bytes behind it; a bit number
beyond 7 writes into `count[0]`, because `wp_set_bit` works on an eight-byte word. What `malloc`
leaves in the memory is a choice. `1 << b` is a recursive function (`Shift`).

**Mailbox.** A slot is free, holds an attempt of Linux, or a reply. `rtosInt` and `linuxInt` are the
interrupts pending on the two cores. The handler `prvQueueISR` takes four steps per slot, as the
other core runs meanwhile; the task cannot run while the handler does, and holding the spinlock masks
interrupts. Every `ioctl` that reaches a slot is an attempt with a number of its own; `sent` says
which command it was. The Linux kernel driver is external.

**RobotTasks.** The calls of `video_capture` and its labels are two tables (`Setup`, `Release`):
what follows, what is acquired, where a failure goes, what a label gives back and where it falls
through to. Three acquisitions stand beside what is built upon the middleware: the image of
`CVI_TDL_CreateImage`, which no label frees, the faces of a frame, which `FREE_FACE` frees, and
`mailbox_comm`'s own `CVI_SYS_Init`, whose result is overwritten by the next call and which nothing undoes.
`mood_sys_get_frame` builds the list and crashes the process when there is no READY mood.

**Middleware, RobotProgram, Camera.** Tables again: `InitCalls` (what follows a call, what it gets,
what a failing one leaves behind, its label) and `UndoSteps` (what a label or a destroying call gives
back, and where it goes on). A failure may leave something half-made: the vendor's sample code that
`Init_WM` calls (`cvimpi/3rdparty/middleware`) can fail before or after it has made its group or
channel, so both outcomes are possible. `RobotProgram` puts these calls in the place of
the first and the last step of `video_capture`, so that signals, failures and the crash of the frame
task fall between them. `Camera` has the same calls in `main()`, and the loop of its thread.

**KeyDriver.** `Load` and `Unload` are tables in the same form. The interrupt, the timer and the
clock are the kernel's, modelled from how `key.c` uses them.

**TaskletDriver** adds the tasklet; its timer expires in the past like the key's, so the clock is left
out. **TimerDriver** keeps time relative: ticks left of the timer and of every expiry that was computed
and has not reached `mod_timer`. A `copy_from_user` that failed sets the period to whatever its variable
holds. **CharDrivers** counts the references of a `struct cdev` as the kernel does: one of `cdev_init`,
one of each open file.

**Servo.** The word of a command is two numbers, the 22 bits of the position and the ten control
bits, which `control_data` leaves uninitialised. `task` says which firmware runs and never changes: a
behaviour has `servo_task` or `oled_task`, and one channel, whose registers are `pwm`. The float arithmetic of `servo_control` is given in integers; `abs` takes its
argument to an integer as the code does. **SoftI2C.** A call is the sequence of pin accesses it makes;
making a pin an output and setting it are two steps, and the device looks at the lines after each. The
device (MPU6050) is external: it may leave any byte unanswered. **CheckStack.** The big core may switch
a pin whenever it likes, as often as `MaxSwitch` allows. **Oled.** A byte of the buffer is the set of
its bits; a transfer to the display is answered, or lost with the cursor anywhere. The loops of `oled_pow`,
`oled_show_num` and of the digits of a rounded number are recursive functions of their counter.

**FileSearch** reads blocks as `fread` does, and goes back by the length of the target when it has found
none. **Utils** takes a character or a face per step; the value of a run of digits, with which its
result is compared, is a recursive function. **MoodQueue** copies byte by byte with the two
indices; it implements **ByteFifo** under the sequence from `front` to `rear`.

`MCMoods`, `MCSmallCore` and `MCDrivers` put modules side by side that share no state: a behaviour
picks one of them in its first state (`followed`, `subject`) and the others keep theirs, so that a run
has the sum and not the product of their states. Fairness and leads-to properties speak of the steps of
the part a behaviour follows.

## Runs

| run | what it shows | states | bounds and why they are enough |
|---|---|---|---|
| `pool_safety` | counters, order, wakeups, joining, and the refinement of TaskPool | 21 k (symmetry) | Three workers of which two are initial: growth, and release above one idle thread. Three tasks and a queue of two: the queue is full, and a task is refused. One failed call at any point, one spurious wakeup. |
| `pool_liveness` | every queued task is started, `thread_pool_stop` returns | 367 k | Three tasks of which one may never return, two initial threads: the third task makes the pool grow to a third thread. One idle allowed: workers leave, before the stop, during it, and while `task_create` counts them as idle. One failed call. Spurious wakeups are in `pool_safety`. |
| `pool_dry` | *violated*: all workers leave while a task is queued | | The constants of `wp_config.h` and three initial threads. |
| `moods` | ids, names, edges, and the refinement of MoodRelation; group bits and counts; the search, the number and the face that are found; the queue implements ByteFifo | 197 k | BASE and three moods: a destroyed mood has neighbours on both sides; a relevance beyond its limit; one change of a value. The real constants of the frames, with all choices of missing, countless and counted files and one number that does not fit a byte. Files of up to four blocks and a target of half a block: it lies over a border in each way. Texts of four characters, three faces. Four calls of a queue of three bytes: full, empty, round the end. |
| `mailbox` | no message lost, stranded, doubled, overwritten; attempts are handled | 79 k | Two slots and a queue of one: both fill up. Three commands of two attempts: an old attempt overtakes and is overtaken. One lock failure, one event. |
| `mailbox_event` | *violated*: an event is lost | | The constants of the firmware, one event. |
| `robot_tasks` | resources go back in order, those of the middleware too, with exactly the image and the `CVI_SYS_Init` that stay; it is there while it is used; a signal or a failure stops every task; the composition implements RobotTasks | 121 k | Nothing to bound but the moods: two of the six, since the tasks see only that some are created and some are not. |
| `robot_ready` | *violated*: no mood is READY when one is asked for | | |
| `frame_zero` | *violated*: the count of group 0 is clobbered | | The real constants. |
| `drivers` | what remains of each kernel module after a failed load and an unload; the key's last position is seen; the timer obeys; open files keep their module; the camera program gives back and ends | 41 k | Three edges, one each for a handler before, during and after a timer function, and five ticks; three `ioctl`s of two programs: one overtakes the other, and one comes after both; two files on a device. The camera needs no bound. |
| `small_core` | the servo follows the face, and comes to rest with it; registers change as written and each call returns with a free bus; the pins are used when ready; the display shows the buffer, which implements a screen of pixels | 89 k | Faces at both edges, control bits all set; either firmware. Two accesses of two registers, with the firmware's 50 tries: an unanswered byte in each place of either. A stack of eight, five switches: a pin goes back after it was seen right. Three pages and eight columns: an image at the edge and over two pages, two drawings, two updates, one lost transfer. |
| `key_debounce` | *violated*: the timer fires at once | | |

Every property of a passing run is broken by a mutant of the code's logic (`mutants` in
`PROJECT.json`; their right-hand sides are the definitions marked "a slip" beside the ones they
replace). Deadlock is checked in the pool, where `Terminated` is the only way to stop, in the mailbox,
where `Quiet` is, and on the small core, whose parts stop only with their calls used up (`Rest`). The
other systems may stop: a module is unloaded, all tasks leave, a loop is over.

Properties worth knowing:

* `NoLostWakeup`: whenever a task is queued and every worker that stays is waiting, main is about to
  signal. The signal goes out after the unlock, so this is not obvious: a worker that takes the task
  first leaves a signal that wakes somebody for nothing, and a spurious wakeup may take it instead.
* `StopsClean` has a condition in its part `StopJoinsEveryMember`: no worker was ever released and
  every `pthread_create` of `thread_pool_init` worked. Without it the property fails: `tid[]` is not
  compacted when a worker leaves and `total_num` shrinks, so that the loop joins the first threads and
  not the living ones.
* `Served` and `StopTerminates` except the case that only daemons are left, and that the pool is dry.
  `StopTerminates` includes a `total_num` that leaving workers count down while the join loop reads it.
* `GivesBack` says of the robot's tasks that a label is reached only with its own resource on top, and
  names what stays: the image of `main.c:53` and the `CVI_SYS_Init` of `main.c:137`.
* `EdgesMeet` is what makes the one-directional test in `mood_bind` and `mood_unbind` right.
* `OnePlace` counts the places of an attempt: slot, copy, queue, handled, dropped. `InStep` says what
  a successful `ioctl` tells Linux about the small core's data; it holds only while no attempt was
  repeated, because the handler takes slots by number and not by age.
* `StagesGoAsTheyCame` names what stays behind: a bound group, a half-made encoder channel.
* `KeyIsSeen` (a liveness property) needs the restart of a timer whose function runs already, and a
  tasklet that is scheduled again while it runs.
* `TimerObeys` and `OnlyTheTaskletRemains` except exactly the races of `del_timer` and of the tasklet
  nobody kills; the histories `raced`, `quiet` and `late` mark them.
* `FollowsFace` compares what `servo_task` takes with the position that was sent, through two packings
  and ten bits that were never written. `ServoSettles` (a liveness property): when the face no longer moves,
  the pulse becomes that of its position and stays, although the word is copied three times on its way and
  each copy may be old. It does because the angle is reckoned from 90 degrees each time and not from the last.
* `UsedWhenReady` asks that one run saw every pin right, one after the other. A pin that the big core
  switches back after it was seen is looked at neither by the code nor by the property.
* `OnlyAsWritten` holds although `i2c_w_byte` ignores an unanswered byte and the caller goes on: the
  stop that `i2c_wait_ack` sends makes the device deaf until the next start with its address.
* `UpdateShows` holds for an update none of whose transfers is lost, whatever was lost before it,
  because every page sets its cursor anew.

## Fairness

* *Pool*: weak fairness of main up to the call of `thread_pool_stop`, of each worker, and of the
  return of tasks that are not daemons: the scheduler runs every thread that can run. The mutex is not
  assumed to be fair (that would be strong fairness of the steps that take it): a thread that waits for
  it gets it because the others come to wait for a task or for main. That main ever calls
  `thread_pool_stop`, that a daemon returns, and spurious wakeups are not assumed.
* *Mailbox*: both cores run and take interrupts that stay pending. Nothing is assumed of GPIO events,
  timeouts and the giving up of the spinlock.
* *Robot tasks and middleware*: the scheduler runs every thread and the vendor's calls return. The code
  gives some of them a time (2000 for `GetChnFrame`, 1000 for the scaler, `mstime` for an `ioctl`); that the
  others return is assumed. Nothing is asked of the frame task, so that the process need not crash, nor of the signal.
* *Kernel modules*: the kernel serves interrupts, scheduled tasklets and expired timers, time passes,
  and an `ioctl` that was called goes on. Nobody has to press, load, unload or call.
* *Camera program*: its two threads run and the vendor's calls return. `CVI_VENC_GetStream(…, -1)`
  (`middleware_utils.c:417`) waits as long as it takes: that it returns is assumed of the encoder, which has
  just been sent a frame.
* *Servo*: `mailbox_comm` goes on copying and sending what it has copied, and the small core's tasks run:
  the loops of both do that until the robot stops, and nothing is asked of the camera. `ServoSettles` is
  about a robot that runs on.
* *I2C and pins*: a task goes on inside a call of the I2C functions and in its wait for the pins; nobody
  has to call, to switch a pin or to answer.

## Proofs

All constants are arbitrary within the named assumptions of the modules that declare them. Most of
these say only that the constants have the right kind: `PoolAssumption` (a finite set of threads,
pseudo-values that are no threads), `MailboxAssumption`, `KeyAssumption`, `TasksAssumption`,
`TaskletAssumption`, `TimerAssumption`, `CharAssumption` (at least one reference can be counted),
`SearchAssumption` (a target is shorter than a block), `UtilsAssumption`, `QueueAssumption` (the size of
the queue fits its byte), `OledAssumption` (an image has whole strips of eight rows, which the fonts
have), `FrameAssumption` and `MoodAssumption` (no mood is bound with itself, more than one id). Two say
more of this program: `ServoAssumption` (positions of eleven bits, angles of a sweep below 180) and
`CheckAssumption` (wanted values fit a byte). The middleware and the camera have no constants.

Where a theorem has a condition beyond these, it is written in it: `FewMoods` (fewer moods than ids) for
the ids and edges of the mood graph, `Len(Wanted) <= StackSize` for the check of the pins, and `TextsFit`
(the last character of a number begins within the 256 columns that its `uint8_t` counts) for the refinement of
`PixelScreen`. `FewNamesFewMoods` shows that the first holds when the callers use fewer names than
there are ids (`FewNames`), as the robot does with seven of 256; `check_task` pushes three registers on a
stack of eight; the one caller draws eight characters of eight columns from column 1 on, and TLC finds
`TextsFit` true on the instance of `small_core`.

| theorem | says |
|---|---|
| `ThreadPoolProofs!TypeCorrect` | `Spec => []TypeOK` |
| `ThreadPoolProofs!CountersCorrect` | `Spec => []Accounting` |
| `ThreadPoolProofs!OrderCorrect` | `Spec => []FirstComeFirstRun` |
| `ThreadPoolProofs!ShutdownCorrect` | `Spec => []ShutdownDrains` |
| `ThreadPoolProofs!WakeupCorrect` | `Spec => []NoLostWakeup` |
| `ThreadPoolProofs!JoinCorrect`, `StopCorrect` | `Spec => []JoinsAThread`, `[]StopJoinsEveryMember` |
| `ThreadPoolProofs!StopsCleanCorrect` | `Spec => []StopsClean`, which is the last three |
| `ThreadPoolProofs!ImplementsPool` | `Spec => ImplementsTaskPool`, the specification of `TaskPool` |
| `MailboxProofs!TypeCorrect`, `NoneStranded` | `Spec => []TypeOK`, `[]NothingStranded` |
| `MailboxProofs!NoneOverwritten` | `Spec => NeverOverwritten` |
| `MailboxProofs!OnePlaceCorrect` | `Spec => []OnePlace` |
| `MailboxProofs!CoresInStep` | `Spec => []InStep` |
| `MoodProofs!NamesCorrect` | `Spec => []OneMoodPerName` |
| `MoodProofs!FewNamesFewMoods` | `Spec => []FewMoods` when there are fewer names than ids |
| `MoodProofs!FoundCorrect`, `EdgesCorrect`, `TypeCorrect` | `Spec /\ []FewMoods => []EachMoodIsFound`, `[]EdgesMeet`, `[]TypeOK` |
| `MoodProofs!RelationCorrect` | `Spec /\ []FewMoods => ImplementsMoodRelation`, the specification of `MoodRelation` |
| `MoodProofs!GroupsCorrect`, `FrameTypeCorrect` | `FrameSpec => []GroupsAsFound`, `[]FrameTypeOK` |
| `MoodProofs!SearchCorrect` | `SearchSpec => [](FoundInOrder /\ FoundBeforeTheEnd)` |
| `MoodProofs!FirstIntCorrect`, `LargestCorrect` | `UtilsSpec => []FirstInt`, `[]LargestFace` |
| `MoodProofs!QueueTypeCorrect`, `FifoCorrect` | `QueueSpec => []QueueTypeOK`, `ImplementsFifo`, the specification of `ByteFifo` |
| `MoodProofs!HelpersCorrect` | `MCSpec => []HelpersRight` of `MCMoods`: the search, the number and the face, side by side |
| `MoodProofs!MoodTypes`, `FewNamesTypes` | `MCSpec /\ []FewMoods => []TypesOK` of `MCMoods`, and `MCSpec => []TypesOK` when there are fewer names than ids |
| `MiddlewareProofs!RemainsAndStands` | `MwSpec => []StagesGoAsTheyCame` |
| `MiddlewareProofs!CamTypeCorrect`, `CamGivesBack` | `CamSpec => []CamTypeOK`, `[](OneStray /\ DestroyedAfterCapture)` |
| `RobotProgramProofs!TypeCorrect`, `VideoGivesBack`, `MailboxGivesBack` | `Spec => []TypeOK`, `[]GivesBackInOrder`, `[]GivesBackBuffer` of `RobotTasks` |
| `RobotProgramProofs!BothGiveBack` | `Spec => []GivesBack`: all goes back but the image and the second `CVI_SYS_Init` |
| `RobotProgramProofs!ImplementsRobotTasks` | `ProgSpec => Spec` of `RobotTasks` |
| `RobotProgramProofs!ProgramGivesBack`, `ThereForTheTasks` | `ProgSpec => []GivesBack`, `[]MiddlewareIsThere` |
| `RobotProgramProofs!ProgramStages` | `ProgSpec => []StagesGoAsTheyCame` |
| `DriversProofs!TypeCorrect`, `UnloadCorrect` | `Spec => []TypeOK`, `[]NothingRemains` of `KeyDriver` |
| `DriversProofs!TaskletTypeCorrect`, `TaskletUnloadCorrect` | `TaskletSpec => []TaskletTypeOK`, `[]OnlyTheTaskletRemains` |
| `DriversProofs!CharTypeCorrect`, `CharFilesHold` | `CharSpec => []CharTypeOK`, `[]FilesHold` |
| `DriversProofs!TimerTypeCorrect`, `TimerGone` | `TimerSpec => []TimerTypeOK`, `[](OnlyTheRaceRemains /\ StaysClosed)` |
| `DriversProofs!DriversTypes` | `MCSpec => []TypesOK` of `MCDrivers` |
| `I2cProofs!I2cTypeCorrect`, `RegistersAsWritten` | `I2cSpec => []I2cTypeOK`, `OnlyAsWritten` |
| `I2cProofs!CallsAreRight` | `I2cSpec => [](BusFree /\ WorkDone)`, the safety half of `EachCallIsRight` |
| `SmallCoreProofs!ServoTypeCorrect`, `ServoFollows` | `ServoSpec => []ServoTypeOK`, `FollowsFace` |
| `SmallCoreProofs!CheckTypeCorrect`, `PinsSeenBefore` | `CheckSpec => []CheckTypeOK`, `[]SeenBefore` when the stack has room |
| `SmallCoreProofs!UpdateShowsAll` | `OledSpec => []UpdateShows` |
| `SmallCoreProofs!OledTypeCorrect` | `OledSpec => []OledTypeOK` |
| `SmallCoreProofs!ScreenShows` | `TextsFit => (OledSpec => ImplementsPixels)`, the specification of `PixelScreen` |
| `SmallCoreProofs!SmallCoreTypes` | `MCSpec => []TypesOK` of `MCSmallCore` |

**The pool's argument.** `Accounting` is not inductive by itself. That `busy_num` goes down by one
when a worker settles, and stays a number, needs that the worker is in its critical section
(`MutexInv`) and is counted; that `total_num` is the number of members needs that
`thread_pool_init` is over or has come as far as `i` (`InitInv`), and that it can be counted down
needs that a leaver is a member. Types, mutex, counters and the phase of main together are inductive:

    CoreInv == TypeOK /\ MutexInv /\ Accounting /\ InitInv /\ ShutdownInv

and the other safety invariants are proved on top of it.

* *Counting*: `Counting`, `Resize` and `Move` say how the number of workers with a pc in a set changes
  when one worker moves; every step that changes `pc` but `Stop` moves at most one.
* *Order*: with `HandInv` (the task in main's hand was never queued), `accepted = started \o queue`
  survives an append at the tail and a shift at the head (`AppendBehind`, `ShiftHead`).
* *Wakeups*: `WakeInv` strengthens `NoLostWakeup` to a count: while somebody waits, `num` is at most
  the number of workers that will look at the queue before they wait (`Coming`), plus one if the
  signal is still to come. A worker begins to wait only when `num` is 0; taking a task lowers both
  sides; queueing one raises `num` and owes a signal; the signal turns a waiter into one on its way.
* *Shutdown*: a worker exits only with an empty queue, and main queues nothing after `shutdown`.
* *Joining*: the slots below `total_num` hold threads (`SlotInv`); while
  nobody was released they hold all of them, and those behind the loop counter have exited (`JoinInv`).
* *Refinement*: `HoldsInv` says that a worker in `run` executes a task that was started, and no two the
  same. So the tasks executing are at most as many as their workers, which are members; the one that
  takes the next task is a member too and executes nothing, which leaves room for it (`RoomForOne`).

**The mailbox's argument.** `MailInv` is about who owns what. The spinlock tells which side may look for
a slot; an interrupt is pending only for a message, and a reply's as long as the reply is there
(`PendingInv`); the slot the handler has cleared the interrupt of and not yet emptied belongs to it
alone, since the other core takes none but free slots (`HandlerInv`). That is what makes the order in
`prvQueueISR`, clear, copy, empty, right, and both `NothingStranded` and `NeverOverwritten` follow.
`PlaceInv` shares out the attempts among slots, hand, queue, handled and dropped as disjoint sets without
repetition; each step moves one attempt from one set to the next, and `OnePlace` counts them.

`StepInv` is about the time before any attempt is repeated: the attempts are then the commands, those behind
the one in hand were handled, and its own reply is the only one under way, so that an answer is the answer
to the command Linux waits for; `CoresInStep` follows.

**The mood graph's argument.** `ListInv` (names, the order of the list) is inductive by itself. `EdgeInv` is
`EdgesMeet` seen from one list: at every mood no two edges lead to the same place (`Single`) and each has
its partner at the place its id says (`Partnered`). It is inductive only together with `IdIsPlace`, and
that only with `FewMoods`: the 257th mood gets an id that somebody has. What a call does to the list is first
described mood by mood (a mood stays, moves down by one, loses its edges to the destroyed one, has those
behind it renumbered) and then the two parts of `EdgeInv` are carried from the old list to the new one.

*The refinement of `MoodRelation`.* A *tie* is an edge from one place to another. With `EdgeInv` the ties
are symmetric and there is at most one for each pair of places and, since names differ, of names; so the
relation the mapping reads from a list (`RelIn`) is a function of unordered pairs, determined by the ties
(`RelIs`). Every call is then matched with the abstract one: a create adds a name and no tie, a bind
adds one tie in both directions or, when the second `malloc` fails, none, an unbind takes it out, and a
destroy takes out a name with its ties while the renumbering, invisible from outside, keeps all others.

**The sequential parts.** `FrameInv` adds to `GroupsAsFound` which turns were taken. That
`count[0]` stays a byte, although the bits behind the group are set and cleared in it, rests on the
division of a byte at bit `b`: what lies above, the bit, what lies below (`BitFits`). `SearchInv` says that
what was found is exactly what lies before the file position; going back by the length of the target after a
block without one keeps it, since no target begins in the part that is read again and ends in what was read.
`TextInv` says that the number so far is the value of the digits since the run began, negative when there was
a minus before it; a digit more is one step of the recursive function `Value`. `FaceInv` is
`LargestFace` of the faces looked at so far. `QueueInv` says that `rear` lies `size` bytes behind
`front`, round the end of the array, and that a write under way has room for the bytes it has left; a byte
written is then an append to the bytes that wait (`Waiting`), a byte read takes off their head, and the places
of those that stay are the same counted from either front (`SlotsFollow`).

**The robot's tasks and the middleware.** `HoldInv` says what each of the two tasks holds at each call,
label and loop, the image, the faces and the second `CVI_SYS_Init` aside, which may be there or not. `MwInv` says at each call of `Init_WM`, at each label and at each call of `Destroy_MW`
what is held, and what was given back twice; a label can be reached from several calls, so it says less
there. In `RobotProgram` a call of the middleware changes nothing `RobotTasks` knows of, and
`video_capture` steps only as there: every step is one of `RobotTasks` or a stutter, which is
`ImplementsRobotTasks`, and `GivesBack` carries over. `WhereInv` says where the middleware can be while
`video_capture` is in its first statement, in its last, and elsewhere; with `MwInv` it gives
`MiddlewareIsThere`. `CamInv` does the same for the camera program: where `main` can be while its
thread captures, and what the thread has at each statement of its loop.

**The kernel modules.** `KeyInv` says at each step of loading and unloading what is held and what the
interrupt and the timer can be: the interrupt is pending only between its request and `free_irq`, and
behind `del_timer_sync` the timer is out and its function over, since nothing restarts it without the
interrupt. `TaskletInv` is the same with three halves (`HalvesInv`): nobody waits for the tasklet, so the
timer may be restarted behind `del_timer_sync`, by the tasklet alone. `TimerDriverInv` says who can still
arm the timer when the module is gone (`BehindExit`): a function or an `ioctl` that was under way, which
the history `raced` marks. `CharInv` is stated driver by driver: what a driver holds at each of its calls, that
a registered `struct cdev` has one reference more than open files and any other at least as many unless it
was initialised again, and that a module under unload has no open file.

**The small core.** `WordsInv` says that a packed position comes out as it went in, and that the angle rises
with it (`DegreeRises`); `PwmInv` says that the period is set and that the pulse is one a servo
understands, since it is the first or that of an angle up to 180 (`PulseFits`). `StackInv`, `StageInv` and `SeenInv` say that
the registers below the loop's place were seen right since the run began, and that the pins come into use
behind such a run only. `UpdateInv` says that the pages before the one that is sent are on the display
when every byte was answered, and where the cursor is between its three commands.

*The refinement of `PixelScreen`.* Each pixel of an image is followed back: the row `8 p + b` of the buffer
holds the bit of the strip the row lies in when `b` is not above the shift, and otherwise the one carried from
the strip above (`RowOfImage`, `BitIs`). A number is its characters put one after another (`PutTextIs`,
`FloatIsPut`), each an image at a column that `TextsFit` keeps from wrapping round; the code computes the digits
of the rounded fraction one by one, the abstract screen shows those of the number rounded to the nearest, and
`RoundedRight` says that these are the same digits, a carry into the whole part included.

**The software I2C.** A call is a list of up to some hundred pin accesses, of which the state holds those that
are left. `CallPlace` says that they are always the accesses from the `n`-th on of the `j`-th function the
call makes (`Kinds`, `From`, `Behind`), or those `i2c_wait_ack` makes when it has its answer or gives up. For
each function and access (`StartInv`, `BitInv`, `WaitInv`, `SampleInv`, `ReadInv`, `StopInv`) it says how the two
lines stand and where the device is in its byte: it has heard exactly the upper bits that were sent. An unanswered byte
leaves both lines high and the device waiting for a start (`Unanswered`), and so deaf to the bytes the
caller goes on to send, which is why `OnlyAsWritten` holds; the start in the middle of a read is the one place
where it hears again, and then it hears its read address. `I2cInv` was checked by TLC on the instance of
`small_core`, 12 k states of the I2C alone.

**Parts side by side.** In `MCMoods`, `MCDrivers` and `MCSmallCore` a behaviour follows one part and
leaves the variables of the others alone, so that it is a behaviour of every part (`PartsAlone`): what was
proved of each specification holds of the run's.

**Recursion.** The theorems about induction of the library take an operator as a parameter and are of no use here.
The recursive functions of the proved modules have a finite range of numbers as their domain, and what is true
of all of them is shown by the smallest number of which it is not; that there is one, and that such a
definition defines a function, are lemmas with proofs of their own.

Every inductive invariant named here was checked by TLC on the instances above before it was proved.

**Only model-checked.** Liveness, since fairness is beyond the prover: `Served`, `StopTerminates`,
`AttemptsHandled`, `EachStopIsHeard`, `KeyIsSeen`, `ServoSettles`, the first half of `EachCallIsRight` (each call
returns), the fairness in `ImplementsTasks`, and what `TimerObeys`, `CameraEnds` and `UsedWhenReady` say beyond
the theorems above. Every invariant of every passing run, and the safety part of every other property, is a theorem.

## What the code does not do

Each of these is a run whose property says what a comment says, and that TLC finds violated.

* `wp_thread_pool.c:61`: a worker decides to leave from a `total_num` that still counts the
  workers that have decided and not yet left, so all may leave while tasks are queued
  (`pool_dry`, `NeverDry`; the comment in line 23 excludes it).
* `comm_main.c:194`: `gFreertos_Data` is reset again behind the unlock; an event in between is lost
  (`mailbox_event`, `EventsReported`).
* `main.c:287`: `mood_locate_ready` has no READY mood to return, and its NULL is followed
  (`robot_ready`, `AMoodIsReady`).
* `wp_mood_sys.c:455`: the ninth and tenth turn clear bits of `count[0]` (`frame_zero`, `Count0Stays`).
* `key.c:61`: the expiry of the timer lacks `jiffies`, so the key is not debounced (`key_debounce`,
  `Debounced`).

Seen while modelling, without a run of their own.

*Robot.* Values of bound moods leave their range (`wp_mood_sys.c:661`); nothing looks at `MAX_MOOD_NUM`
(`:379`); a count that is not found leaves the byte `malloc` left (`:435`); a ninth file writes behind
the arrays (`:448`). `file_search_data` does not search the last block, and so no file shorter than one
(`wp_utils.c:124`); `extract_first_int` takes a minus anywhere before the number for its sign (`:145`);
`face_filter` counts faces in a byte and does not end with 256 of them; `rand_section` is
`rand() % end + start`, which is not the range its comment says; `wp_set_bit` shifts an `int`. The third
task to return makes its worker leave, so that `thread_pool_stop` may return before the last task has
(`main.c:351`), and the process then ends under it.

`video_capture` makes an image before its loop, whose result is not looked at and which no label frees
(`main.c:53`, `:112`); `mailbox_comm` calls `CVI_SYS_Init` a second time in the process, overwrites its result
and never undoes it (`:137`).

*Middleware and camera.* Failures of `Init_WM` behind the start of VPSS leave its group and the binding,
a failing VENC start a half-made channel; a failing VI start exits SYS twice. The result of
`CreateSession` is not looked at, and `Send_Frame_RTSP` follows the session. `Send_Frame_RTSP` releases
a stream, and `VideoCapture` a frame, that it did not get. `camera-64-3.c` never destroys its service
handle, and nobody undoes the binding of VI and VPSS.

*Small core.* `set_angle` stops every channel of its PWM bank (`duo_pwm.c:46`: `0 << id`), which does no
harm as each firmware uses one channel. `abs` of a float is the integer function, so that the servo stays at 90 degrees for every x
from 1 to 1279, while the picture is 1920 wide; `last_degree` is never set. A register read whose
pointer byte is not answered returns another register's value. `check_system_clear` clears four times
the size (`duo_check.c:63`). An OLED image whose height is no multiple of eight
clears fewer rows than it draws on, and one of height 0 draws a page.

*Kernel modules.* The key's interrupt is live before its timer is set up (`key.c:117`, the step
`KeyIrqTooEarly`), the tasklet driver's before tasklet and timer are (`TooEarly`), and the timer's file
can be opened before the timer is (`Oops`). The tasklet driver's timer expires in the past like the key's
(`tasklet.c:71`), and its tasklet is not killed at exit. `del_timer` does not wait for a function that
re-arms its timer (`timer.c:191`). `copy_from_user` is compared with less than zero, so that a bad
pointer sets the period to whatever is there. `leddevice` registered again under an open file
initialises the `cdev` of that file again. `platform2` never frees its pin, and
`Robot/drivers/chardev` ignores that its registration failed.

## Not modelled

* The vendor's middleware behind its calls, OpenCV and the Linux mailbox driver: external. Their headers,
  and the fonts, are the larger part of the repository's lines: `cvi_tdl_core.h`, `vpss_helper.h` and
  their like declare what nobody in the repository defines, and the fonts are tables. `vi_vo_utils.c`
  is not called from anything in the repository. The earlier versions under `study/` and in `backup/`
  directories are older copies of what is modelled: to map them to the same modules would say of them
  what was only read in the current ones. What is left of the lines counts the state machines above.
* Printing, drawing and file formats: pure I/O. The settings `middleware_init` fills in.
* `RobotTasks` together with `ThreadPool`: which task is over when `thread_pool_stop` returns is in the
  pool's `StopsClean`, whose condition the robot does not meet (a third idle worker leaves).
* Device-tree, GPIO and fixed-number drivers, and the UART: a flag each, or register reads in a loop;
  the UART is not used. `uart4_getc` reads when there is no character,
  and returns nothing when there is one.
* The demonstration programs: bus and screen I/O without a protocol of their own.
* The reference that `of_find_node_by_path` takes on its node (`key.c:98`, `tasklet.c:106`) and that nothing
  puts: `NothingRemains` and `OnlyTheTaskletRemains` do not count it.
* Frame addresses: nothing reads them before the program stops.
* The photo branch of `video_capture` and the trigger branch of `mood_sys_update`: nothing sets
  `gVideoCapture` to 2 or `gTrigger`.
* `mood_bind` of a mood with itself, excluded by `MoodAssumption`: nothing calls it so.
* What `check_system_clear` overwrites, and what a ninth frame file does: the linker's and `malloc`'s
  layout. The interrupt modes of `duo_gpio.c`, the arithmetic of `mpu6050_get_data` and its filter, and
  the functions of `wp_utils.c` that are one expression.

## Plan

Written, in this order: `ThreadPool` with `TaskPool`; `MoodGraph` with `MoodRelation`; `Mailbox`;
`RobotTasks`; `FrameConfig`; `KeyDriver` and the proofs about them; then `Servo`, `SoftI2C`,
`CheckStack`, `Oled` with `PixelScreen`; `FileSearch`, `Utils`, `MoodQueue` with `ByteFifo`;
`TaskletDriver`, `TimerDriver`, `CharDrivers`; `Middleware`, `RobotProgram`, `Camera`. Then the
theorems: the invariants of every passing run, and the refinements of `TaskPool`, `MoodRelation`, `RobotTasks`,
`ByteFifo` and `PixelScreen`.

Left: `mood_sys_update` walking the list while `mood_init` appends; the interrupt that is requested before
the small core's queue exists; `cpu_mbox_en`, which both cores read and write.

Runs stay few: one per question, with parts that share no state in one run.
