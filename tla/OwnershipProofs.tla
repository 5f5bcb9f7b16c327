--------------------------- MODULE OwnershipProofs ---------------------------
(***************************************************************************)
(* One owner at a time, and the work it has admitted, for any number of    *)
(* commands and crashes.                                                   *)
(***************************************************************************)
EXTENDS OwnershipInvariant, TLAPS

\* Every step keeps every variable in its type.
LEMMA TypeStep ==
  ASSUME TypeOK, AdmittedInv, CallInv, StopInv, [Next]_vars
  PROVE  TypeOK'
<1> USE KindsDiffer
        DEF TypeOK, AdmittedInv, CallInv, StopInv, vars, ownerVars, Procs, Owners, Hosts,
            ProcOrNone, OwnerOrNone, Steps, Calls
<1>1. ASSUME NEW x \in Procs, Discover(x)
       PROVE  TypeOK'
  BY <1>1 DEF Discover, Answers, Route, Routed, Goto
<1>2. ASSUME NEW x \in Procs, DiscoverNobody(x)
       PROVE  TypeOK'
  BY <1>2 DEF DiscoverNobody, Goto
<1>3. ASSUME NEW x \in Procs, Locks(x)
       PROVE  TypeOK'
  BY <1>3 DEF Locks, AtLock, LockFree, Goto
<1>4. ASSUME NEW x \in Procs, LockTaken(x)
       PROVE  TypeOK'
  BY <1>4 DEF LockTaken, AtLock, Goto
<1>5. ASSUME NEW x \in Procs, OwnerlessCleanup(x)
       PROVE  TypeOK'
  BY <1>5 DEF OwnerlessCleanup, Goto
<1>6. ASSUME NEW x \in Procs, Release(x)
       PROVE  TypeOK'
  BY <1>6 DEF Release, Goto
<1>7. ASSUME NEW x \in Procs, Exit(x)
       PROVE  TypeOK'
  BY <1>7 DEF Exit, Vanish, Goto
<1>8. ASSUME NEW x \in Procs, CallFails(x)
       PROVE  TypeOK'
  BY <1>8 DEF CallFails, Answers, Alive, Goto
<1>9. ASSUME NEW x \in Procs, StopBegins(x)
       PROVE  TypeOK'
  BY <1>9 DEF StopBegins, Reaches, Answers, Goto
<1>10. ASSUME NEW x \in Procs, StopSettles(x)
       PROVE  TypeOK'
  BY <1>10 DEF StopSettles, Settled, Alive, Goto
<1>11. ASSUME NEW x \in Procs, StopOwns(x)
       PROVE  TypeOK'
  BY <1>11 DEF StopOwns, Alive, MutationOver, StopReturn, Goto
<1>12. ASSUME NEW x \in Procs, StopRemoves(x)
       PROVE  TypeOK'
  BY <1>12 DEF StopRemoves, Alive, StopReturn, Goto
<1>13. ASSUME NEW s \in Starts, StartCleans(s)
       PROVE  TypeOK'
  BY <1>13 DEF StartCleans, Answers, Route, Routed, Goto
<1>14. ASSUME NEW s \in Starts, StartCalls(s)
       PROVE  TypeOK'
  BY <1>14 DEF StartCalls, Reaches, Answers, CallEnds
<1>15. ASSUME NEW s \in Starts, StartActivates(s)
       PROVE  TypeOK'
  BY <1>15 DEF StartActivates, Starting, CallEnds
<1>16. ASSUME NEW s \in Starts, StartFails(s)
       PROVE  TypeOK'
  BY <1>16 DEF StartFails, Starting, CallEnds
<1>17. ASSUME NEW s \in Starts, StartAsks(s)
       PROVE  TypeOK'
  BY <1>17 DEF StartAsks, Starting, CallEnds
<1>18. ASSUME NEW s \in Starts, RoutedReturns(s)
       PROVE  TypeOK'
  BY <1>18 DEF RoutedReturns, Goto
<1>19. ASSUME NEW s \in Starts, ActivationFailed(s)
       PROVE  TypeOK'
  BY <1>19 DEF ActivationFailed, Goto
<1>20. ASSUME NEW s \in Starts, UserAnswers(s)
       PROVE  TypeOK'
  BY <1>20 DEF UserAnswers, CallEnds
<1>21. ASSUME NEW s \in Starts, PromptEnds(s)
       PROVE  TypeOK'
  BY <1>21 DEF PromptEnds, CallEnds
<1>22. ASSUME NEW s \in Serves, ServeVerifies(s)
       PROVE  TypeOK'
  BY <1>22 DEF ServeVerifies, Answers, Goto
<1>23. ASSUME NEW c \in CACommands, CAAdmits(c)
       PROVE  TypeOK'
  BY <1>23 DEF CAAdmits, Reaches, Answers, Goto
<1>24. ASSUME NEW c \in CACommands, CARefused(c)
       PROVE  TypeOK'
  BY <1>24 DEF CARefused, Reaches, Answers, CAReturn, Goto
<1>25. ASSUME NEW c \in CACommands, CASettles(c)
       PROVE  TypeOK'
  BY <1>25 DEF CASettles, CAReturn, Goto
<1>26. ASSUME NEW c \in CACommands, TransientEnds(c)
       PROVE  TypeOK'
  BY <1>26 DEF TransientEnds, Goto
<1>27. ASSUME NEW o \in Owners, Claim(o)
       PROVE  TypeOK'
  BY <1>27 DEF Claim, Goto
<1>28. ASSUME NEW o \in Owners, ClaimFails(o)
       PROVE  TypeOK'
  BY <1>28 DEF ClaimFails, Goto
<1>29. ASSUME NEW o \in Owners, ShutdownSeen(o)
       PROVE  TypeOK'
  BY <1>29 DEF ShutdownSeen, Goto
<1>30. ASSUME NEW o \in Owners, Cancelled(o)
       PROVE  TypeOK'
  BY <1>30 DEF Cancelled, CallOver, Goto
<1>31. ASSUME NEW o \in Owners, RemovesOwned(o)
       PROVE  TypeOK'
  BY <1>31 DEF RemovesOwned, Goto
<1>32. ASSUME NEW o \in Owners, RouterCloses(o)
       PROVE  TypeOK'
  BY <1>32 DEF RouterCloses, Goto
<1>33. ASSUME NEW o \in Owners, RouterDrains(o)
       PROVE  TypeOK'
  BY <1>33 DEF RouterDrains, Drained, Handled, Goto
<1>34. ASSUME NEW o \in Owners, RouterForced(o)
       PROVE  TypeOK'
  BY <1>34 DEF RouterForced
<1>35. ASSUME NEW o \in Owners, Crash(o)
       PROVE  TypeOK'
  BY <1>35 DEF Crash, Vanish, Goto
<1>36. ASSUME NEW o \in Hosts, Interrupted(o)
       PROVE  TypeOK'
  BY <1>36 DEF Interrupted, Goto
<1>37. CASE UNCHANGED vars
  BY <1>37
<1> QED
  BY <1>1, <1>2, <1>3, <1>4, <1>5, <1>6, <1>7, <1>8, <1>9, <1>10, <1>11, <1>12, <1>13,
     <1>14, <1>15, <1>16, <1>17, <1>18, <1>19, <1>20, <1>21, <1>22, <1>23, <1>24,
     <1>25, <1>26, <1>27, <1>28, <1>29, <1>30, <1>31, <1>32, <1>33, <1>34, <1>35,
     <1>36, <1>37
     DEF Next, CommandStep, StartStep, CAStep, OwnerStep, Owners, Hosts

\* A process becomes its own target with its claim.
LEMMA TargetStep ==
  ASSUME TypeOK, TargetInv, RouterInv, [Next]_vars
  PROVE  TargetInv'
<1> USE KindsDiffer
        DEF TypeOK, TargetInv, RouterInv, vars, ownerVars, Procs, Owners, Hosts, ProcOrNone,
            OwnerOrNone, Steps, Calls, Preparing, Answering, Closing, Working, Own
<1>1. ASSUME NEW x \in Procs, Discover(x)
       PROVE  TargetInv'
  BY <1>1 DEF Discover, Answers, Route, Routed, Goto
<1>2. ASSUME NEW x \in Procs, DiscoverNobody(x)
       PROVE  TargetInv'
  BY <1>2 DEF DiscoverNobody, Goto
<1>3. ASSUME NEW x \in Procs, Locks(x)
       PROVE  TargetInv'
  BY <1>3 DEF Locks, AtLock, LockFree, Goto
<1>4. ASSUME NEW x \in Procs, LockTaken(x)
       PROVE  TargetInv'
  BY <1>4 DEF LockTaken, AtLock, Goto
<1>5. ASSUME NEW x \in Procs, OwnerlessCleanup(x)
       PROVE  TargetInv'
  BY <1>5 DEF OwnerlessCleanup, Goto
<1>6. ASSUME NEW x \in Procs, Release(x)
       PROVE  TargetInv'
  BY <1>6 DEF Release, Goto
<1>7. ASSUME NEW x \in Procs, Exit(x)
       PROVE  TargetInv'
  BY <1>7 DEF Exit, Vanish, Goto
<1>8. ASSUME NEW x \in Procs, CallFails(x)
       PROVE  TargetInv'
  BY <1>8 DEF CallFails, Answers, Alive, Goto
<1>9. ASSUME NEW x \in Procs, StopBegins(x)
       PROVE  TargetInv'
  BY <1>9 DEF StopBegins, Reaches, Answers, Goto
<1>10. ASSUME NEW x \in Procs, StopSettles(x)
       PROVE  TargetInv'
  BY <1>10 DEF StopSettles, Settled, Alive, Goto
<1>11. ASSUME NEW x \in Procs, StopOwns(x)
       PROVE  TargetInv'
  BY <1>11 DEF StopOwns, Alive, MutationOver, StopReturn, Goto
<1>12. ASSUME NEW x \in Procs, StopRemoves(x)
       PROVE  TargetInv'
  BY <1>12 DEF StopRemoves, Alive, StopReturn, Goto
<1>13. ASSUME NEW s \in Starts, StartCleans(s)
       PROVE  TargetInv'
  BY <1>13 DEF StartCleans, Answers, Route, Routed, Goto
<1>14. ASSUME NEW s \in Starts, StartCalls(s)
       PROVE  TargetInv'
  BY <1>14 DEF StartCalls, Reaches, Answers, CallEnds
<1>15. ASSUME NEW s \in Starts, StartActivates(s)
       PROVE  TargetInv'
  BY <1>15 DEF StartActivates, Starting, CallEnds
<1>16. ASSUME NEW s \in Starts, StartFails(s)
       PROVE  TargetInv'
  BY <1>16 DEF StartFails, Starting, CallEnds
<1>17. ASSUME NEW s \in Starts, StartAsks(s)
       PROVE  TargetInv'
  BY <1>17 DEF StartAsks, Starting, CallEnds
<1>18. ASSUME NEW s \in Starts, RoutedReturns(s)
       PROVE  TargetInv'
  BY <1>18 DEF RoutedReturns, Goto
<1>19. ASSUME NEW s \in Starts, ActivationFailed(s)
       PROVE  TargetInv'
  BY <1>19 DEF ActivationFailed, Goto
<1>20. ASSUME NEW s \in Starts, UserAnswers(s)
       PROVE  TargetInv'
  BY <1>20 DEF UserAnswers, CallEnds
<1>21. ASSUME NEW s \in Starts, PromptEnds(s)
       PROVE  TargetInv'
  BY <1>21 DEF PromptEnds, CallEnds
<1>22. ASSUME NEW s \in Serves, ServeVerifies(s)
       PROVE  TargetInv'
  BY <1>22 DEF ServeVerifies, Answers, Goto
<1>23. ASSUME NEW c \in CACommands, CAAdmits(c)
       PROVE  TargetInv'
  BY <1>23 DEF CAAdmits, Reaches, Answers, Goto
<1>24. ASSUME NEW c \in CACommands, CARefused(c)
       PROVE  TargetInv'
  BY <1>24 DEF CARefused, Reaches, Answers, CAReturn, Goto
<1>25. ASSUME NEW c \in CACommands, CASettles(c)
       PROVE  TargetInv'
  BY <1>25 DEF CASettles, CAReturn, Goto
<1>26. ASSUME NEW c \in CACommands, TransientEnds(c)
       PROVE  TargetInv'
  BY <1>26 DEF TransientEnds, Goto
<1>27. ASSUME NEW o \in Owners, Claim(o)
       PROVE  TargetInv'
  BY <1>27 DEF Claim, Goto
<1>28. ASSUME NEW o \in Owners, ClaimFails(o)
       PROVE  TargetInv'
  BY <1>28 DEF ClaimFails, Goto
<1>29. ASSUME NEW o \in Owners, ShutdownSeen(o)
       PROVE  TargetInv'
  BY <1>29 DEF ShutdownSeen, Goto
<1>30. ASSUME NEW o \in Owners, Cancelled(o)
       PROVE  TargetInv'
  BY <1>30 DEF Cancelled, CallOver, Goto
<1>31. ASSUME NEW o \in Owners, RemovesOwned(o)
       PROVE  TargetInv'
  BY <1>31 DEF RemovesOwned, Goto
<1>32. ASSUME NEW o \in Owners, RouterCloses(o)
       PROVE  TargetInv'
  BY <1>32 DEF RouterCloses, Goto
<1>33. ASSUME NEW o \in Owners, RouterDrains(o)
       PROVE  TargetInv'
  BY <1>33 DEF RouterDrains, Drained, Handled, Goto
<1>34. ASSUME NEW o \in Owners, RouterForced(o)
       PROVE  TargetInv'
  BY <1>34 DEF RouterForced
<1>35. ASSUME NEW o \in Owners, Crash(o)
       PROVE  TargetInv'
  BY <1>35 DEF Crash, Vanish, Goto
<1>36. ASSUME NEW o \in Hosts, Interrupted(o)
       PROVE  TargetInv'
  BY <1>36 DEF Interrupted, Goto
<1>37. CASE UNCHANGED vars
  BY <1>37
<1> QED
  BY <1>1, <1>2, <1>3, <1>4, <1>5, <1>6, <1>7, <1>8, <1>9, <1>10, <1>11, <1>12, <1>13,
     <1>14, <1>15, <1>16, <1>17, <1>18, <1>19, <1>20, <1>21, <1>22, <1>23, <1>24,
     <1>25, <1>26, <1>27, <1>28, <1>29, <1>30, <1>31, <1>32, <1>33, <1>34, <1>35,
     <1>36, <1>37
     DEF Next, CommandStep, StartStep, CAStep, OwnerStep, Owners, Hosts

\* The lock is held from its acquisition to its release.
LEMMA TenureStep ==
  ASSUME TypeOK, TargetInv, TenureInv, RouterInv, [Next]_vars
  PROVE  TenureInv'
<1> USE KindsDiffer
        DEF TypeOK, TargetInv, TenureInv, RouterInv, vars, ownerVars, Procs, Owners, Hosts,
            ProcOrNone, OwnerOrNone, Steps, Calls, Preparing, Answering, Closing, Working, Own
<1>1. ASSUME NEW x \in Procs, Discover(x)
       PROVE  TenureInv'
  BY <1>1 DEF Discover, Answers, Route, Routed, Goto
<1>2. ASSUME NEW x \in Procs, DiscoverNobody(x)
       PROVE  TenureInv'
  BY <1>2 DEF DiscoverNobody, Goto
<1>3. ASSUME NEW x \in Procs, Locks(x)
       PROVE  TenureInv'
  BY <1>3 DEF Locks, AtLock, LockFree, Goto
<1>4. ASSUME NEW x \in Procs, LockTaken(x)
       PROVE  TenureInv'
  BY <1>4 DEF LockTaken, AtLock, Goto
<1>5. ASSUME NEW x \in Procs, OwnerlessCleanup(x)
       PROVE  TenureInv'
  BY <1>5 DEF OwnerlessCleanup, Goto
<1>6. ASSUME NEW x \in Procs, Release(x)
       PROVE  TenureInv'
  BY <1>6 DEF Release, Goto
<1>7. ASSUME NEW x \in Procs, Exit(x)
       PROVE  TenureInv'
  BY <1>7 DEF Exit, Vanish, Goto
<1>8. ASSUME NEW x \in Procs, CallFails(x)
       PROVE  TenureInv'
  BY <1>8 DEF CallFails, Answers, Alive, Goto
<1>9. ASSUME NEW x \in Procs, StopBegins(x)
       PROVE  TenureInv'
  BY <1>9 DEF StopBegins, Reaches, Answers, Goto
<1>10. ASSUME NEW x \in Procs, StopSettles(x)
       PROVE  TenureInv'
  BY <1>10 DEF StopSettles, Settled, Alive, Goto
<1>11. ASSUME NEW x \in Procs, StopOwns(x)
       PROVE  TenureInv'
  BY <1>11 DEF StopOwns, Alive, MutationOver, StopReturn, Goto
<1>12. ASSUME NEW x \in Procs, StopRemoves(x)
       PROVE  TenureInv'
  BY <1>12 DEF StopRemoves, Alive, StopReturn, Goto
<1>13. ASSUME NEW s \in Starts, StartCleans(s)
       PROVE  TenureInv'
  BY <1>13 DEF StartCleans, Answers, Route, Routed, Goto
<1>14. ASSUME NEW s \in Starts, StartCalls(s)
       PROVE  TenureInv'
  BY <1>14 DEF StartCalls, Reaches, Answers, CallEnds
<1>15. ASSUME NEW s \in Starts, StartActivates(s)
       PROVE  TenureInv'
  BY <1>15 DEF StartActivates, Starting, CallEnds
<1>16. ASSUME NEW s \in Starts, StartFails(s)
       PROVE  TenureInv'
  BY <1>16 DEF StartFails, Starting, CallEnds
<1>17. ASSUME NEW s \in Starts, StartAsks(s)
       PROVE  TenureInv'
  BY <1>17 DEF StartAsks, Starting, CallEnds
<1>18. ASSUME NEW s \in Starts, RoutedReturns(s)
       PROVE  TenureInv'
  BY <1>18 DEF RoutedReturns, Goto
<1>19. ASSUME NEW s \in Starts, ActivationFailed(s)
       PROVE  TenureInv'
  BY <1>19 DEF ActivationFailed, Goto
<1>20. ASSUME NEW s \in Starts, UserAnswers(s)
       PROVE  TenureInv'
  BY <1>20 DEF UserAnswers, CallEnds
<1>21. ASSUME NEW s \in Starts, PromptEnds(s)
       PROVE  TenureInv'
  BY <1>21 DEF PromptEnds, CallEnds
<1>22. ASSUME NEW s \in Serves, ServeVerifies(s)
       PROVE  TenureInv'
  BY <1>22 DEF ServeVerifies, Answers, Goto
<1>23. ASSUME NEW c \in CACommands, CAAdmits(c)
       PROVE  TenureInv'
  BY <1>23 DEF CAAdmits, Reaches, Answers, Goto
<1>24. ASSUME NEW c \in CACommands, CARefused(c)
       PROVE  TenureInv'
  BY <1>24 DEF CARefused, Reaches, Answers, CAReturn, Goto
<1>25. ASSUME NEW c \in CACommands, CASettles(c)
       PROVE  TenureInv'
  BY <1>25 DEF CASettles, CAReturn, Goto
<1>26. ASSUME NEW c \in CACommands, TransientEnds(c)
       PROVE  TenureInv'
  BY <1>26 DEF TransientEnds, Goto
<1>27. ASSUME NEW o \in Owners, Claim(o)
       PROVE  TenureInv'
  BY <1>27 DEF Claim, Goto
<1>28. ASSUME NEW o \in Owners, ClaimFails(o)
       PROVE  TenureInv'
  BY <1>28 DEF ClaimFails, Goto
<1>29. ASSUME NEW o \in Owners, ShutdownSeen(o)
       PROVE  TenureInv'
  BY <1>29 DEF ShutdownSeen, Goto
<1>30. ASSUME NEW o \in Owners, Cancelled(o)
       PROVE  TenureInv'
  BY <1>30 DEF Cancelled, CallOver, Goto
<1>31. ASSUME NEW o \in Owners, RemovesOwned(o)
       PROVE  TenureInv'
  BY <1>31 DEF RemovesOwned, Goto
<1>32. ASSUME NEW o \in Owners, RouterCloses(o)
       PROVE  TenureInv'
  BY <1>32 DEF RouterCloses, Goto
<1>33. ASSUME NEW o \in Owners, RouterDrains(o)
       PROVE  TenureInv'
  BY <1>33 DEF RouterDrains, Drained, Handled, Goto
<1>34. ASSUME NEW o \in Owners, RouterForced(o)
       PROVE  TenureInv'
  BY <1>34 DEF RouterForced
<1>35. ASSUME NEW o \in Owners, Crash(o)
       PROVE  TenureInv'
  BY <1>35 DEF Crash, Vanish, Goto
<1>36. ASSUME NEW o \in Hosts, Interrupted(o)
       PROVE  TenureInv'
  BY <1>36 DEF Interrupted, Goto
<1>37. CASE UNCHANGED vars
  BY <1>37
<1> QED
  BY <1>1, <1>2, <1>3, <1>4, <1>5, <1>6, <1>7, <1>8, <1>9, <1>10, <1>11, <1>12, <1>13,
     <1>14, <1>15, <1>16, <1>17, <1>18, <1>19, <1>20, <1>21, <1>22, <1>23, <1>24,
     <1>25, <1>26, <1>27, <1>28, <1>29, <1>30, <1>31, <1>32, <1>33, <1>34, <1>35,
     <1>36, <1>37
     DEF Next, CommandStep, StartStep, CAStep, OwnerStep, Owners, Hosts

\* A router answers only during its owner's tenure.
LEMMA RouterStep ==
  ASSUME TypeOK, TargetInv, TenureInv, RouterInv, [Next]_vars
  PROVE  RouterInv'
<1> USE KindsDiffer
        DEF TypeOK, TargetInv, TenureInv, RouterInv, vars, ownerVars, Procs, Owners, Hosts,
            ProcOrNone, OwnerOrNone, Steps, Calls, Preparing, Answering, Closing, Working, Own
<1>1. ASSUME NEW x \in Procs, Discover(x)
       PROVE  RouterInv'
  BY <1>1 DEF Discover, Answers, Route, Routed, Goto
<1>2. ASSUME NEW x \in Procs, DiscoverNobody(x)
       PROVE  RouterInv'
  BY <1>2 DEF DiscoverNobody, Goto
<1>3. ASSUME NEW x \in Procs, Locks(x)
       PROVE  RouterInv'
  BY <1>3 DEF Locks, AtLock, LockFree, Goto
<1>4. ASSUME NEW x \in Procs, LockTaken(x)
       PROVE  RouterInv'
  BY <1>4 DEF LockTaken, AtLock, Goto
<1>5. ASSUME NEW x \in Procs, OwnerlessCleanup(x)
       PROVE  RouterInv'
  BY <1>5 DEF OwnerlessCleanup, Goto
<1>6. ASSUME NEW x \in Procs, Release(x)
       PROVE  RouterInv'
  BY <1>6 DEF Release, Goto
<1>7. ASSUME NEW x \in Procs, Exit(x)
       PROVE  RouterInv'
  BY <1>7 DEF Exit, Vanish, Goto
<1>8. ASSUME NEW x \in Procs, CallFails(x)
       PROVE  RouterInv'
  BY <1>8 DEF CallFails, Answers, Alive, Goto
<1>9. ASSUME NEW x \in Procs, StopBegins(x)
       PROVE  RouterInv'
  BY <1>9 DEF StopBegins, Reaches, Answers, Goto
<1>10. ASSUME NEW x \in Procs, StopSettles(x)
       PROVE  RouterInv'
  BY <1>10 DEF StopSettles, Settled, Alive, Goto
<1>11. ASSUME NEW x \in Procs, StopOwns(x)
       PROVE  RouterInv'
  BY <1>11 DEF StopOwns, Alive, MutationOver, StopReturn, Goto
<1>12. ASSUME NEW x \in Procs, StopRemoves(x)
       PROVE  RouterInv'
  BY <1>12 DEF StopRemoves, Alive, StopReturn, Goto
<1>13. ASSUME NEW s \in Starts, StartCleans(s)
       PROVE  RouterInv'
  BY <1>13 DEF StartCleans, Answers, Route, Routed, Goto
<1>14. ASSUME NEW s \in Starts, StartCalls(s)
       PROVE  RouterInv'
  BY <1>14 DEF StartCalls, Reaches, Answers, CallEnds
<1>15. ASSUME NEW s \in Starts, StartActivates(s)
       PROVE  RouterInv'
  BY <1>15 DEF StartActivates, Starting, CallEnds
<1>16. ASSUME NEW s \in Starts, StartFails(s)
       PROVE  RouterInv'
  BY <1>16 DEF StartFails, Starting, CallEnds
<1>17. ASSUME NEW s \in Starts, StartAsks(s)
       PROVE  RouterInv'
  BY <1>17 DEF StartAsks, Starting, CallEnds
<1>18. ASSUME NEW s \in Starts, RoutedReturns(s)
       PROVE  RouterInv'
  BY <1>18 DEF RoutedReturns, Goto
<1>19. ASSUME NEW s \in Starts, ActivationFailed(s)
       PROVE  RouterInv'
  BY <1>19 DEF ActivationFailed, Goto
<1>20. ASSUME NEW s \in Starts, UserAnswers(s)
       PROVE  RouterInv'
  BY <1>20 DEF UserAnswers, CallEnds
<1>21. ASSUME NEW s \in Starts, PromptEnds(s)
       PROVE  RouterInv'
  BY <1>21 DEF PromptEnds, CallEnds
<1>22. ASSUME NEW s \in Serves, ServeVerifies(s)
       PROVE  RouterInv'
  BY <1>22 DEF ServeVerifies, Answers, Goto
<1>23. ASSUME NEW c \in CACommands, CAAdmits(c)
       PROVE  RouterInv'
  BY <1>23 DEF CAAdmits, Reaches, Answers, Goto
<1>24. ASSUME NEW c \in CACommands, CARefused(c)
       PROVE  RouterInv'
  BY <1>24 DEF CARefused, Reaches, Answers, CAReturn, Goto
<1>25. ASSUME NEW c \in CACommands, CASettles(c)
       PROVE  RouterInv'
  BY <1>25 DEF CASettles, CAReturn, Goto
<1>26. ASSUME NEW c \in CACommands, TransientEnds(c)
       PROVE  RouterInv'
  BY <1>26 DEF TransientEnds, Goto
<1>27. ASSUME NEW o \in Owners, Claim(o)
       PROVE  RouterInv'
  BY <1>27 DEF Claim, Goto
<1>28. ASSUME NEW o \in Owners, ClaimFails(o)
       PROVE  RouterInv'
  BY <1>28 DEF ClaimFails, Goto
<1>29. ASSUME NEW o \in Owners, ShutdownSeen(o)
       PROVE  RouterInv'
  BY <1>29 DEF ShutdownSeen, Goto
<1>30. ASSUME NEW o \in Owners, Cancelled(o)
       PROVE  RouterInv'
  BY <1>30 DEF Cancelled, CallOver, Goto
<1>31. ASSUME NEW o \in Owners, RemovesOwned(o)
       PROVE  RouterInv'
  BY <1>31 DEF RemovesOwned, Goto
<1>32. ASSUME NEW o \in Owners, RouterCloses(o)
       PROVE  RouterInv'
  BY <1>32 DEF RouterCloses, Goto
<1>33. ASSUME NEW o \in Owners, RouterDrains(o)
       PROVE  RouterInv'
  BY <1>33 DEF RouterDrains, Drained, Handled, Goto
<1>34. ASSUME NEW o \in Owners, RouterForced(o)
       PROVE  RouterInv'
  BY <1>34 DEF RouterForced
<1>35. ASSUME NEW o \in Owners, Crash(o)
       PROVE  RouterInv'
  BY <1>35 DEF Crash, Vanish, Goto
<1>36. ASSUME NEW o \in Hosts, Interrupted(o)
       PROVE  RouterInv'
  BY <1>36 DEF Interrupted, Goto
<1>37. CASE UNCHANGED vars
  BY <1>37
<1> QED
  BY <1>1, <1>2, <1>3, <1>4, <1>5, <1>6, <1>7, <1>8, <1>9, <1>10, <1>11, <1>12, <1>13,
     <1>14, <1>15, <1>16, <1>17, <1>18, <1>19, <1>20, <1>21, <1>22, <1>23, <1>24,
     <1>25, <1>26, <1>27, <1>28, <1>29, <1>30, <1>31, <1>32, <1>33, <1>34, <1>35,
     <1>36, <1>37
     DEF Next, CommandStep, StartStep, CAStep, OwnerStep, Owners, Hosts

\* A host waits for its own start.
LEMMA CallStep ==
  ASSUME TypeOK, TargetInv, TenureInv, RouterInv, CallInv, [Next]_vars
  PROVE  CallInv'
<1> USE KindsDiffer
        DEF TypeOK, TargetInv, TenureInv, RouterInv, CallInv, vars, ownerVars, Procs, Owners,
            Hosts, ProcOrNone, OwnerOrNone, Steps, Calls, Preparing, Answering, Closing, Working,
            Own
<1>1. ASSUME NEW x \in Procs, Discover(x)
       PROVE  CallInv'
  BY <1>1 DEF Discover, Answers, Route, Routed, Goto
<1>2. ASSUME NEW x \in Procs, DiscoverNobody(x)
       PROVE  CallInv'
  BY <1>2 DEF DiscoverNobody, Goto
<1>3. ASSUME NEW x \in Procs, Locks(x)
       PROVE  CallInv'
  BY <1>3 DEF Locks, AtLock, LockFree, Goto
<1>4. ASSUME NEW x \in Procs, LockTaken(x)
       PROVE  CallInv'
  BY <1>4 DEF LockTaken, AtLock, Goto
<1>5. ASSUME NEW x \in Procs, OwnerlessCleanup(x)
       PROVE  CallInv'
  BY <1>5 DEF OwnerlessCleanup, Goto
<1>6. ASSUME NEW x \in Procs, Release(x)
       PROVE  CallInv'
  BY <1>6 DEF Release, Goto
<1>7. ASSUME NEW x \in Procs, Exit(x)
       PROVE  CallInv'
  BY <1>7 DEF Exit, Vanish, Goto
<1>8. ASSUME NEW x \in Procs, CallFails(x)
       PROVE  CallInv'
  BY <1>8 DEF CallFails, Answers, Alive, Goto
<1>9. ASSUME NEW x \in Procs, StopBegins(x)
       PROVE  CallInv'
  BY <1>9 DEF StopBegins, Reaches, Answers, Goto
<1>10. ASSUME NEW x \in Procs, StopSettles(x)
       PROVE  CallInv'
  BY <1>10 DEF StopSettles, Settled, Alive, Goto
<1>11. ASSUME NEW x \in Procs, StopOwns(x)
       PROVE  CallInv'
  BY <1>11 DEF StopOwns, Alive, MutationOver, StopReturn, Goto
<1>12. ASSUME NEW x \in Procs, StopRemoves(x)
       PROVE  CallInv'
  BY <1>12 DEF StopRemoves, Alive, StopReturn, Goto
<1>13. ASSUME NEW s \in Starts, StartCleans(s)
       PROVE  CallInv'
  BY <1>13 DEF StartCleans, Answers, Route, Routed, Goto
<1>14. ASSUME NEW s \in Starts, StartCalls(s)
       PROVE  CallInv'
  BY <1>14 DEF StartCalls, Reaches, Answers, CallEnds
<1>15. ASSUME NEW s \in Starts, StartActivates(s)
       PROVE  CallInv'
  BY <1>15 DEF StartActivates, Starting, CallEnds
<1>16. ASSUME NEW s \in Starts, StartFails(s)
       PROVE  CallInv'
  BY <1>16 DEF StartFails, Starting, CallEnds
<1>17. ASSUME NEW s \in Starts, StartAsks(s)
       PROVE  CallInv'
  BY <1>17 DEF StartAsks, Starting, CallEnds
<1>18. ASSUME NEW s \in Starts, RoutedReturns(s)
       PROVE  CallInv'
  BY <1>18 DEF RoutedReturns, Goto
<1>19. ASSUME NEW s \in Starts, ActivationFailed(s)
       PROVE  CallInv'
  BY <1>19 DEF ActivationFailed, Goto
<1>20. ASSUME NEW s \in Starts, UserAnswers(s)
       PROVE  CallInv'
  BY <1>20 DEF UserAnswers, CallEnds
<1>21. ASSUME NEW s \in Starts, PromptEnds(s)
       PROVE  CallInv'
  BY <1>21 DEF PromptEnds, CallEnds
<1>22. ASSUME NEW s \in Serves, ServeVerifies(s)
       PROVE  CallInv'
  BY <1>22 DEF ServeVerifies, Answers, Goto
<1>23. ASSUME NEW c \in CACommands, CAAdmits(c)
       PROVE  CallInv'
  BY <1>23 DEF CAAdmits, Reaches, Answers, Goto
<1>24. ASSUME NEW c \in CACommands, CARefused(c)
       PROVE  CallInv'
  BY <1>24 DEF CARefused, Reaches, Answers, CAReturn, Goto
<1>25. ASSUME NEW c \in CACommands, CASettles(c)
       PROVE  CallInv'
  BY <1>25 DEF CASettles, CAReturn, Goto
<1>26. ASSUME NEW c \in CACommands, TransientEnds(c)
       PROVE  CallInv'
  BY <1>26 DEF TransientEnds, Goto
<1>27. ASSUME NEW o \in Owners, Claim(o)
       PROVE  CallInv'
  BY <1>27 DEF Claim, Goto
<1>28. ASSUME NEW o \in Owners, ClaimFails(o)
       PROVE  CallInv'
  BY <1>28 DEF ClaimFails, Goto
<1>29. ASSUME NEW o \in Owners, ShutdownSeen(o)
       PROVE  CallInv'
  BY <1>29 DEF ShutdownSeen, Goto
<1>30. ASSUME NEW o \in Owners, Cancelled(o)
       PROVE  CallInv'
  BY <1>30 DEF Cancelled, CallOver, Goto
<1>31. ASSUME NEW o \in Owners, RemovesOwned(o)
       PROVE  CallInv'
  BY <1>31 DEF RemovesOwned, Goto
<1>32. ASSUME NEW o \in Owners, RouterCloses(o)
       PROVE  CallInv'
  BY <1>32 DEF RouterCloses, Goto
<1>33. ASSUME NEW o \in Owners, RouterDrains(o)
       PROVE  CallInv'
  BY <1>33 DEF RouterDrains, Drained, Handled, Goto
<1>34. ASSUME NEW o \in Owners, RouterForced(o)
       PROVE  CallInv'
  BY <1>34 DEF RouterForced
<1>35. ASSUME NEW o \in Owners, Crash(o)
       PROVE  CallInv'
  BY <1>35 DEF Crash, Vanish, Goto
<1>36. ASSUME NEW o \in Hosts, Interrupted(o)
       PROVE  CallInv'
  BY <1>36 DEF Interrupted, Goto
<1>37. CASE UNCHANGED vars
  BY <1>37
<1> QED
  BY <1>1, <1>2, <1>3, <1>4, <1>5, <1>6, <1>7, <1>8, <1>9, <1>10, <1>11, <1>12, <1>13,
     <1>14, <1>15, <1>16, <1>17, <1>18, <1>19, <1>20, <1>21, <1>22, <1>23, <1>24,
     <1>25, <1>26, <1>27, <1>28, <1>29, <1>30, <1>31, <1>32, <1>33, <1>34, <1>35,
     <1>36, <1>37
     DEF Next, CommandStep, StartStep, CAStep, OwnerStep, Owners, Hosts

\* What is admitted settles before the owner's tenure ends.
LEMMA AdmittedStep ==
  ASSUME TypeOK, TargetInv, TenureInv, RouterInv, CallInv, AdmittedInv, StopInv, [Next]_vars
  PROVE  AdmittedInv'
<1> USE KindsDiffer
        DEF TypeOK, TargetInv, TenureInv, RouterInv, CallInv, AdmittedInv, StopInv, vars,
            ownerVars, Procs, Owners, Hosts, ProcOrNone, OwnerOrNone, Steps, Calls, Preparing,
            Answering, Closing, Working, Own
<1>1. ASSUME NEW x \in Procs, Discover(x)
       PROVE  AdmittedInv'
  BY <1>1 DEF Discover, Answers, Route, Routed, Goto
<1>2. ASSUME NEW x \in Procs, DiscoverNobody(x)
       PROVE  AdmittedInv'
  BY <1>2 DEF DiscoverNobody, Goto
<1>3. ASSUME NEW x \in Procs, Locks(x)
       PROVE  AdmittedInv'
  BY <1>3 DEF Locks, AtLock, LockFree, Goto
<1>4. ASSUME NEW x \in Procs, LockTaken(x)
       PROVE  AdmittedInv'
  BY <1>4 DEF LockTaken, AtLock, Goto
<1>5. ASSUME NEW x \in Procs, OwnerlessCleanup(x)
       PROVE  AdmittedInv'
  BY <1>5 DEF OwnerlessCleanup, Goto
<1>6. ASSUME NEW x \in Procs, Release(x)
       PROVE  AdmittedInv'
  BY <1>6 DEF Release, Goto
<1>7. ASSUME NEW x \in Procs, Exit(x)
       PROVE  AdmittedInv'
  BY <1>7 DEF Exit, Vanish, Goto
<1>8. ASSUME NEW x \in Procs, CallFails(x)
       PROVE  AdmittedInv'
  BY <1>8 DEF CallFails, Answers, Alive, Goto
<1>9. ASSUME NEW x \in Procs, StopBegins(x)
       PROVE  AdmittedInv'
  BY <1>9 DEF StopBegins, Reaches, Answers, Goto
<1>10. ASSUME NEW x \in Procs, StopSettles(x)
       PROVE  AdmittedInv'
  BY <1>10 DEF StopSettles, Settled, Alive, Goto
<1>11. ASSUME NEW x \in Procs, StopOwns(x)
       PROVE  AdmittedInv'
  BY <1>11 DEF StopOwns, Alive, MutationOver, StopReturn, Goto
<1>12. ASSUME NEW x \in Procs, StopRemoves(x)
       PROVE  AdmittedInv'
  BY <1>12 DEF StopRemoves, Alive, StopReturn, Goto
<1>13. ASSUME NEW s \in Starts, StartCleans(s)
       PROVE  AdmittedInv'
  BY <1>13 DEF StartCleans, Answers, Route, Routed, Goto
<1>14. ASSUME NEW s \in Starts, StartCalls(s)
       PROVE  AdmittedInv'
  BY <1>14 DEF StartCalls, Reaches, Answers, CallEnds
<1>15. ASSUME NEW s \in Starts, StartActivates(s)
       PROVE  AdmittedInv'
  BY <1>15 DEF StartActivates, Starting, CallEnds
<1>16. ASSUME NEW s \in Starts, StartFails(s)
       PROVE  AdmittedInv'
  BY <1>16 DEF StartFails, Starting, CallEnds
<1>17. ASSUME NEW s \in Starts, StartAsks(s)
       PROVE  AdmittedInv'
  BY <1>17 DEF StartAsks, Starting, CallEnds
<1>18. ASSUME NEW s \in Starts, RoutedReturns(s)
       PROVE  AdmittedInv'
  BY <1>18 DEF RoutedReturns, Goto
<1>19. ASSUME NEW s \in Starts, ActivationFailed(s)
       PROVE  AdmittedInv'
  BY <1>19 DEF ActivationFailed, Goto
<1>20. ASSUME NEW s \in Starts, UserAnswers(s)
       PROVE  AdmittedInv'
  BY <1>20 DEF UserAnswers, CallEnds
<1>21. ASSUME NEW s \in Starts, PromptEnds(s)
       PROVE  AdmittedInv'
  BY <1>21 DEF PromptEnds, CallEnds
<1>22. ASSUME NEW s \in Serves, ServeVerifies(s)
       PROVE  AdmittedInv'
  BY <1>22 DEF ServeVerifies, Answers, Goto
<1>23. ASSUME NEW c \in CACommands, CAAdmits(c)
       PROVE  AdmittedInv'
  BY <1>23 DEF CAAdmits, Reaches, Answers, Goto
<1>24. ASSUME NEW c \in CACommands, CARefused(c)
       PROVE  AdmittedInv'
  BY <1>24 DEF CARefused, Reaches, Answers, CAReturn, Goto
<1>25. ASSUME NEW c \in CACommands, CASettles(c)
       PROVE  AdmittedInv'
  BY <1>25 DEF CASettles, CAReturn, Goto
<1>26. ASSUME NEW c \in CACommands, TransientEnds(c)
       PROVE  AdmittedInv'
  BY <1>26 DEF TransientEnds, Goto
<1>27. ASSUME NEW o \in Owners, Claim(o)
       PROVE  AdmittedInv'
  BY <1>27 DEF Claim, Goto
<1>28. ASSUME NEW o \in Owners, ClaimFails(o)
       PROVE  AdmittedInv'
  BY <1>28 DEF ClaimFails, Goto
<1>29. ASSUME NEW o \in Owners, ShutdownSeen(o)
       PROVE  AdmittedInv'
  BY <1>29 DEF ShutdownSeen, Goto
<1>30. ASSUME NEW o \in Owners, Cancelled(o)
       PROVE  AdmittedInv'
  BY <1>30 DEF Cancelled, CallOver, Goto
<1>31. ASSUME NEW o \in Owners, RemovesOwned(o)
       PROVE  AdmittedInv'
  BY <1>31 DEF RemovesOwned, Goto
<1>32. ASSUME NEW o \in Owners, RouterCloses(o)
       PROVE  AdmittedInv'
  BY <1>32 DEF RouterCloses, Goto
<1>33. ASSUME NEW o \in Owners, RouterDrains(o)
       PROVE  AdmittedInv'
  BY <1>33 DEF RouterDrains, Drained, Handled, Goto
<1>34. ASSUME NEW o \in Owners, RouterForced(o)
       PROVE  AdmittedInv'
  BY <1>34 DEF RouterForced
<1>35. ASSUME NEW o \in Owners, Crash(o)
       PROVE  AdmittedInv'
  BY <1>35 DEF Crash, Vanish, Goto
<1>36. ASSUME NEW o \in Hosts, Interrupted(o)
       PROVE  AdmittedInv'
  BY <1>36 DEF Interrupted, Goto
<1>37. CASE UNCHANGED vars
  BY <1>37
<1> QED
  BY <1>1, <1>2, <1>3, <1>4, <1>5, <1>6, <1>7, <1>8, <1>9, <1>10, <1>11, <1>12, <1>13,
     <1>14, <1>15, <1>16, <1>17, <1>18, <1>19, <1>20, <1>21, <1>22, <1>23, <1>24,
     <1>25, <1>26, <1>27, <1>28, <1>29, <1>30, <1>31, <1>32, <1>33, <1>34, <1>35,
     <1>36, <1>37
     DEF Next, CommandStep, StartStep, CAStep, OwnerStep, Owners, Hosts

\* What a stop has waited for does not come back.
LEMMA StopStep ==
  ASSUME TypeOK, TargetInv, AdmittedInv, StopInv, [Next]_vars
  PROVE  StopInv'
<1> USE KindsDiffer
        DEF TypeOK, TargetInv, AdmittedInv, StopInv, vars, ownerVars, Procs, Owners, Hosts,
            ProcOrNone, OwnerOrNone, Steps, Calls, Preparing, Answering, Closing, Working, Own
<1>1. ASSUME NEW x \in Procs, Discover(x)
       PROVE  StopInv'
  BY <1>1 DEF Discover, Answers, Route, Routed, Goto
<1>2. ASSUME NEW x \in Procs, DiscoverNobody(x)
       PROVE  StopInv'
  BY <1>2 DEF DiscoverNobody, Goto
<1>3. ASSUME NEW x \in Procs, Locks(x)
       PROVE  StopInv'
  BY <1>3 DEF Locks, AtLock, LockFree, Goto
<1>4. ASSUME NEW x \in Procs, LockTaken(x)
       PROVE  StopInv'
  BY <1>4 DEF LockTaken, AtLock, Goto
<1>5. ASSUME NEW x \in Procs, OwnerlessCleanup(x)
       PROVE  StopInv'
  BY <1>5 DEF OwnerlessCleanup, Goto
<1>6. ASSUME NEW x \in Procs, Release(x)
       PROVE  StopInv'
  BY <1>6 DEF Release, Goto
<1>7. ASSUME NEW x \in Procs, Exit(x)
       PROVE  StopInv'
  BY <1>7 DEF Exit, Vanish, Goto
<1>8. ASSUME NEW x \in Procs, CallFails(x)
       PROVE  StopInv'
  BY <1>8 DEF CallFails, Answers, Alive, Goto
<1>9. ASSUME NEW x \in Procs, StopBegins(x)
       PROVE  StopInv'
  BY <1>9 DEF StopBegins, Reaches, Answers, Goto
<1>10. ASSUME NEW x \in Procs, StopSettles(x)
       PROVE  StopInv'
  BY <1>10 DEF StopSettles, Settled, Alive, Goto
<1>11. ASSUME NEW x \in Procs, StopOwns(x)
       PROVE  StopInv'
  BY <1>11 DEF StopOwns, Alive, MutationOver, StopReturn, Goto
<1>12. ASSUME NEW x \in Procs, StopRemoves(x)
       PROVE  StopInv'
  BY <1>12 DEF StopRemoves, Alive, StopReturn, Goto
<1>13. ASSUME NEW s \in Starts, StartCleans(s)
       PROVE  StopInv'
  BY <1>13 DEF StartCleans, Answers, Route, Routed, Goto
<1>14. ASSUME NEW s \in Starts, StartCalls(s)
       PROVE  StopInv'
  BY <1>14 DEF StartCalls, Reaches, Answers, CallEnds
<1>15. ASSUME NEW s \in Starts, StartActivates(s)
       PROVE  StopInv'
  BY <1>15 DEF StartActivates, Starting, CallEnds
<1>16. ASSUME NEW s \in Starts, StartFails(s)
       PROVE  StopInv'
  BY <1>16 DEF StartFails, Starting, CallEnds
<1>17. ASSUME NEW s \in Starts, StartAsks(s)
       PROVE  StopInv'
  BY <1>17 DEF StartAsks, Starting, CallEnds
<1>18. ASSUME NEW s \in Starts, RoutedReturns(s)
       PROVE  StopInv'
  BY <1>18 DEF RoutedReturns, Goto
<1>19. ASSUME NEW s \in Starts, ActivationFailed(s)
       PROVE  StopInv'
  BY <1>19 DEF ActivationFailed, Goto
<1>20. ASSUME NEW s \in Starts, UserAnswers(s)
       PROVE  StopInv'
  BY <1>20 DEF UserAnswers, CallEnds
<1>21. ASSUME NEW s \in Starts, PromptEnds(s)
       PROVE  StopInv'
  BY <1>21 DEF PromptEnds, CallEnds
<1>22. ASSUME NEW s \in Serves, ServeVerifies(s)
       PROVE  StopInv'
  BY <1>22 DEF ServeVerifies, Answers, Goto
<1>23. ASSUME NEW c \in CACommands, CAAdmits(c)
       PROVE  StopInv'
  BY <1>23 DEF CAAdmits, Reaches, Answers, Goto
<1>24. ASSUME NEW c \in CACommands, CARefused(c)
       PROVE  StopInv'
  BY <1>24 DEF CARefused, Reaches, Answers, CAReturn, Goto
<1>25. ASSUME NEW c \in CACommands, CASettles(c)
       PROVE  StopInv'
  BY <1>25 DEF CASettles, CAReturn, Goto
<1>26. ASSUME NEW c \in CACommands, TransientEnds(c)
       PROVE  StopInv'
  BY <1>26 DEF TransientEnds, Goto
<1>27. ASSUME NEW o \in Owners, Claim(o)
       PROVE  StopInv'
  BY <1>27 DEF Claim, Goto
<1>28. ASSUME NEW o \in Owners, ClaimFails(o)
       PROVE  StopInv'
  BY <1>28 DEF ClaimFails, Goto
<1>29. ASSUME NEW o \in Owners, ShutdownSeen(o)
       PROVE  StopInv'
  BY <1>29 DEF ShutdownSeen, Goto
<1>30. ASSUME NEW o \in Owners, Cancelled(o)
       PROVE  StopInv'
  BY <1>30 DEF Cancelled, CallOver, Goto
<1>31. ASSUME NEW o \in Owners, RemovesOwned(o)
       PROVE  StopInv'
  BY <1>31 DEF RemovesOwned, Goto
<1>32. ASSUME NEW o \in Owners, RouterCloses(o)
       PROVE  StopInv'
  BY <1>32 DEF RouterCloses, Goto
<1>33. ASSUME NEW o \in Owners, RouterDrains(o)
       PROVE  StopInv'
  BY <1>33 DEF RouterDrains, Drained, Handled, Goto
<1>34. ASSUME NEW o \in Owners, RouterForced(o)
       PROVE  StopInv'
  BY <1>34 DEF RouterForced
<1>35. ASSUME NEW o \in Owners, Crash(o)
       PROVE  StopInv'
  BY <1>35 DEF Crash, Vanish, Goto
<1>36. ASSUME NEW o \in Hosts, Interrupted(o)
       PROVE  StopInv'
  BY <1>36 DEF Interrupted, Goto
<1>37. CASE UNCHANGED vars
  BY <1>37
<1> QED
  BY <1>1, <1>2, <1>3, <1>4, <1>5, <1>6, <1>7, <1>8, <1>9, <1>10, <1>11, <1>12, <1>13,
     <1>14, <1>15, <1>16, <1>17, <1>18, <1>19, <1>20, <1>21, <1>22, <1>23, <1>24,
     <1>25, <1>26, <1>27, <1>28, <1>29, <1>30, <1>31, <1>32, <1>33, <1>34, <1>35,
     <1>36, <1>37
     DEF Next, CommandStep, StartStep, CAStep, OwnerStep, Owners, Hosts

\* Every step preserves the invariant.
LEMMA InvariantStep ==
  ASSUME OwnershipInv, [Next]_vars
  PROVE  OwnershipInv'
BY TypeStep, TargetStep, TenureStep, RouterStep, CallStep, AdmittedStep, StopStep DEF OwnershipInv

\* A machine on which nothing runs satisfies it.
LEMMA InvariantInit == Init => OwnershipInv
BY KindsDiffer
   DEF Init, OwnershipInv, TypeOK, TargetInv, TenureInv, RouterInv, CallInv, AdmittedInv,
       StopInv, Procs, Owners, Hosts, ProcOrNone, OwnerOrNone, Steps, Calls, Preparing,
       Answering, Closing, Working, Own

\* The invariant holds in every reachable state: who is where in the tenure of
\* the lock (start, serve, runTransient, owner.Run, Stop).
THEOREM InvariantHolds == Spec => []OwnershipInv
<1>1. OwnershipInv /\ UNCHANGED vars => OwnershipInv'
  BY InvariantStep
<1> QED
  BY InvariantInit, InvariantStep, PTL DEF Spec

\* Every variable keeps its type.
THEOREM TypeCorrect == Spec => []TypeOK
<1>1. OwnershipInv => TypeOK
  BY DEF OwnershipInv
<1> QED
  BY <1>1, InvariantHolds, PTL

\* A router that answers is that of the holder of the Gateway Ownership Lock, so
\* two owners never answer at once.
THEOREM OneOwner == Spec => []OneOwnerAnswers
<1>1. OwnershipInv => OneOwnerAnswers
  BY DEF OwnershipInv, RouterInv, TenureInv, OneOwnerAnswers, Owners, Hosts, Procs
<1> QED
  BY <1>1, InvariantHolds, PTL

\* What an owner has admitted settles before it gives up the lock, however its
\* end and other stops overlap.
THEOREM AdmittedWorkIsOwned == Spec => []WorkIsOwned
<1>1. OwnershipInv => WorkIsOwned
  BY DEF OwnershipInv, AdmittedInv, TenureInv, WorkIsOwned, Closing, Owners, Hosts, Procs
<1> QED
  BY <1>1, InvariantHolds, PTL

(***************************************************************************)
(* At most one stop.                                                       *)
(***************************************************************************)
\* A sole stop keeps its owner in its tenure for as long as it is at work on it.
LEMMA SoleStopStep ==
  ASSUME OneStop, TypeOK, TargetInv, TenureInv, RouterInv, StopInv, SoleStopInv, [Next]_vars
  PROVE  SoleStopInv'
<1> USE KindsDiffer
    DEF TypeOK, TargetInv, StopInv, TenureInv, RouterInv, OneStop, SoleStopInv, Alive,
        vars, ownerVars, Procs, Owners, Hosts, ProcOrNone, OwnerOrNone, Steps, Calls,
        Preparing, Answering, Closing, Working, Own
<1>1. ASSUME NEW x \in Procs, Discover(x)
       PROVE  SoleStopInv'
  BY <1>1 DEF Discover, Answers, Route, Routed, Goto
<1>2. ASSUME NEW x \in Procs, DiscoverNobody(x)
       PROVE  SoleStopInv'
  BY <1>2 DEF DiscoverNobody, Goto
<1>3. ASSUME NEW x \in Procs, Locks(x)
       PROVE  SoleStopInv'
  BY <1>3 DEF Locks, AtLock, LockFree, Goto
<1>4. ASSUME NEW x \in Procs, LockTaken(x)
       PROVE  SoleStopInv'
  BY <1>4 DEF LockTaken, AtLock, Goto
<1>5. ASSUME NEW x \in Procs, OwnerlessCleanup(x)
       PROVE  SoleStopInv'
  BY <1>5 DEF OwnerlessCleanup, Goto
<1>6. ASSUME NEW x \in Procs, Release(x)
       PROVE  SoleStopInv'
  BY <1>6 DEF Release, Goto
<1>7. ASSUME NEW x \in Procs, Exit(x)
       PROVE  SoleStopInv'
  BY <1>7 DEF Exit, Vanish, Goto
<1>8. ASSUME NEW x \in Procs, CallFails(x)
       PROVE  SoleStopInv'
  BY <1>8 DEF CallFails, Answers, Alive, Goto
<1>9. ASSUME NEW x \in Procs, StopBegins(x)
       PROVE  SoleStopInv'
  BY <1>9 DEF StopBegins, Reaches, Answers, Goto
<1>10. ASSUME NEW x \in Procs, StopSettles(x)
       PROVE  SoleStopInv'
  BY <1>10 DEF StopSettles, Settled, Alive, Goto
<1>11. ASSUME NEW x \in Procs, StopOwns(x)
       PROVE  SoleStopInv'
  BY <1>11 DEF StopOwns, Alive, MutationOver, StopReturn, Goto
<1>12. ASSUME NEW x \in Procs, StopRemoves(x)
       PROVE  SoleStopInv'
  BY <1>12 DEF StopRemoves, Alive, StopReturn, Goto
<1>13. ASSUME NEW s \in Starts, StartCleans(s)
       PROVE  SoleStopInv'
  BY <1>13 DEF StartCleans, Answers, Route, Routed, Goto
<1>14. ASSUME NEW s \in Starts, StartCalls(s)
       PROVE  SoleStopInv'
  BY <1>14 DEF StartCalls, Reaches, Answers, CallEnds
<1>15. ASSUME NEW s \in Starts, StartActivates(s)
       PROVE  SoleStopInv'
  BY <1>15 DEF StartActivates, Starting, CallEnds
<1>16. ASSUME NEW s \in Starts, StartFails(s)
       PROVE  SoleStopInv'
  BY <1>16 DEF StartFails, Starting, CallEnds
<1>17. ASSUME NEW s \in Starts, StartAsks(s)
       PROVE  SoleStopInv'
  BY <1>17 DEF StartAsks, Starting, CallEnds
<1>18. ASSUME NEW s \in Starts, RoutedReturns(s)
       PROVE  SoleStopInv'
  BY <1>18 DEF RoutedReturns, Goto
<1>19. ASSUME NEW s \in Starts, ActivationFailed(s)
       PROVE  SoleStopInv'
  BY <1>19 DEF ActivationFailed, Goto
<1>20. ASSUME NEW s \in Starts, UserAnswers(s)
       PROVE  SoleStopInv'
  BY <1>20 DEF UserAnswers, CallEnds
<1>21. ASSUME NEW s \in Starts, PromptEnds(s)
       PROVE  SoleStopInv'
  BY <1>21 DEF PromptEnds, CallEnds
<1>22. ASSUME NEW s \in Serves, ServeVerifies(s)
       PROVE  SoleStopInv'
  BY <1>22 DEF ServeVerifies, Answers, Goto
<1>23. ASSUME NEW c \in CACommands, CAAdmits(c)
       PROVE  SoleStopInv'
  BY <1>23 DEF CAAdmits, Reaches, Answers, Goto
<1>24. ASSUME NEW c \in CACommands, CARefused(c)
       PROVE  SoleStopInv'
  BY <1>24 DEF CARefused, Reaches, Answers, CAReturn, Goto
<1>25. ASSUME NEW c \in CACommands, CASettles(c)
       PROVE  SoleStopInv'
  BY <1>25 DEF CASettles, CAReturn, Goto
<1>26. ASSUME NEW c \in CACommands, TransientEnds(c)
       PROVE  SoleStopInv'
  BY <1>26 DEF TransientEnds, Goto
<1>27. ASSUME NEW o \in Owners, Claim(o)
       PROVE  SoleStopInv'
  BY <1>27 DEF Claim, Goto
<1>28. ASSUME NEW o \in Owners, ClaimFails(o)
       PROVE  SoleStopInv'
  BY <1>28 DEF ClaimFails, Goto
<1>29. ASSUME NEW o \in Owners, ShutdownSeen(o)
       PROVE  SoleStopInv'
  BY <1>29 DEF ShutdownSeen, Goto
<1>30. ASSUME NEW o \in Owners, Cancelled(o)
       PROVE  SoleStopInv'
  BY <1>30 DEF Cancelled, CallOver, Goto
<1>31. ASSUME NEW o \in Owners, RemovesOwned(o)
       PROVE  SoleStopInv'
  BY <1>31 DEF RemovesOwned, Goto
<1>32. ASSUME NEW o \in Owners, RouterCloses(o)
       PROVE  SoleStopInv'
  BY <1>32 DEF RouterCloses, Goto
<1>33. ASSUME NEW o \in Owners, RouterDrains(o)
       PROVE  SoleStopInv'
  BY <1>33 DEF RouterDrains, Drained, Handled, Goto
<1>34. ASSUME NEW o \in Owners, RouterForced(o)
       PROVE  SoleStopInv'
  BY <1>34 DEF RouterForced
<1>35. ASSUME NEW o \in Owners, Crash(o)
       PROVE  SoleStopInv'
  BY <1>35 DEF Crash, Vanish, Goto
<1>36. ASSUME NEW o \in Hosts, Interrupted(o)
       PROVE  SoleStopInv'
  BY <1>36 DEF Interrupted, Goto
<1>37. CASE UNCHANGED vars
  BY <1>37
<1> QED
  BY <1>1, <1>2, <1>3, <1>4, <1>5, <1>6, <1>7, <1>8, <1>9, <1>10, <1>11, <1>12, <1>13,
     <1>14, <1>15, <1>16, <1>17, <1>18, <1>19, <1>20, <1>21, <1>22, <1>23, <1>24,
     <1>25, <1>26, <1>27, <1>28, <1>29, <1>30, <1>31, <1>32, <1>33, <1>34, <1>35,
     <1>36, <1>37
     DEF Next, CommandStep, StartStep, CAStep, OwnerStep, Owners, Hosts

\* Then it removes no other owner's cache, and nobody else does.
LEMMA DiscoverableStep ==
  ASSUME TypeOK, TargetInv, TenureInv, RouterInv, StopInv, SoleStopInv, Discoverable, [Next]_vars
  PROVE  Discoverable'
<1> USE KindsDiffer
    DEF TypeOK, TargetInv, StopInv, TenureInv, RouterInv, SoleStopInv, Discoverable,
        vars, ownerVars, Procs, Owners, Hosts, ProcOrNone, OwnerOrNone, Steps, Calls,
        Preparing, Answering, Closing, Working, Own
<1>1. ASSUME NEW x \in Procs, Discover(x)
       PROVE  Discoverable'
  BY <1>1 DEF Discover, Answers, Route, Routed, Goto
<1>2. ASSUME NEW x \in Procs, DiscoverNobody(x)
       PROVE  Discoverable'
  BY <1>2 DEF DiscoverNobody, Goto
<1>3. ASSUME NEW x \in Procs, Locks(x)
       PROVE  Discoverable'
  BY <1>3 DEF Locks, AtLock, LockFree, Goto
<1>4. ASSUME NEW x \in Procs, LockTaken(x)
       PROVE  Discoverable'
  BY <1>4 DEF LockTaken, AtLock, Goto
<1>5. ASSUME NEW x \in Procs, OwnerlessCleanup(x)
       PROVE  Discoverable'
  BY <1>5 DEF OwnerlessCleanup, Goto
<1>6. ASSUME NEW x \in Procs, Release(x)
       PROVE  Discoverable'
  BY <1>6 DEF Release, Goto
<1>7. ASSUME NEW x \in Procs, Exit(x)
       PROVE  Discoverable'
  BY <1>7 DEF Exit, Vanish, Goto
<1>8. ASSUME NEW x \in Procs, CallFails(x)
       PROVE  Discoverable'
  BY <1>8 DEF CallFails, Answers, Alive, Goto
<1>9. ASSUME NEW x \in Procs, StopBegins(x)
       PROVE  Discoverable'
  BY <1>9 DEF StopBegins, Reaches, Answers, Goto
<1>10. ASSUME NEW x \in Procs, StopSettles(x)
       PROVE  Discoverable'
  BY <1>10 DEF StopSettles, Settled, Alive, Goto
<1>11. ASSUME NEW x \in Procs, StopOwns(x)
       PROVE  Discoverable'
  BY <1>11 DEF StopOwns, Alive, MutationOver, StopReturn, Goto
<1>12. ASSUME NEW x \in Procs, StopRemoves(x)
       PROVE  Discoverable'
  BY <1>12 DEF StopRemoves, Alive, StopReturn, Goto
<1>13. ASSUME NEW s \in Starts, StartCleans(s)
       PROVE  Discoverable'
  BY <1>13 DEF StartCleans, Answers, Route, Routed, Goto
<1>14. ASSUME NEW s \in Starts, StartCalls(s)
       PROVE  Discoverable'
  BY <1>14 DEF StartCalls, Reaches, Answers, CallEnds
<1>15. ASSUME NEW s \in Starts, StartActivates(s)
       PROVE  Discoverable'
  BY <1>15 DEF StartActivates, Starting, CallEnds
<1>16. ASSUME NEW s \in Starts, StartFails(s)
       PROVE  Discoverable'
  BY <1>16 DEF StartFails, Starting, CallEnds
<1>17. ASSUME NEW s \in Starts, StartAsks(s)
       PROVE  Discoverable'
  BY <1>17 DEF StartAsks, Starting, CallEnds
<1>18. ASSUME NEW s \in Starts, RoutedReturns(s)
       PROVE  Discoverable'
  BY <1>18 DEF RoutedReturns, Goto
<1>19. ASSUME NEW s \in Starts, ActivationFailed(s)
       PROVE  Discoverable'
  BY <1>19 DEF ActivationFailed, Goto
<1>20. ASSUME NEW s \in Starts, UserAnswers(s)
       PROVE  Discoverable'
  BY <1>20 DEF UserAnswers, CallEnds
<1>21. ASSUME NEW s \in Starts, PromptEnds(s)
       PROVE  Discoverable'
  BY <1>21 DEF PromptEnds, CallEnds
<1>22. ASSUME NEW s \in Serves, ServeVerifies(s)
       PROVE  Discoverable'
  BY <1>22 DEF ServeVerifies, Answers, Goto
<1>23. ASSUME NEW c \in CACommands, CAAdmits(c)
       PROVE  Discoverable'
  BY <1>23 DEF CAAdmits, Reaches, Answers, Goto
<1>24. ASSUME NEW c \in CACommands, CARefused(c)
       PROVE  Discoverable'
  BY <1>24 DEF CARefused, Reaches, Answers, CAReturn, Goto
<1>25. ASSUME NEW c \in CACommands, CASettles(c)
       PROVE  Discoverable'
  BY <1>25 DEF CASettles, CAReturn, Goto
<1>26. ASSUME NEW c \in CACommands, TransientEnds(c)
       PROVE  Discoverable'
  BY <1>26 DEF TransientEnds, Goto
<1>27. ASSUME NEW o \in Owners, Claim(o)
       PROVE  Discoverable'
  BY <1>27 DEF Claim, Goto
<1>28. ASSUME NEW o \in Owners, ClaimFails(o)
       PROVE  Discoverable'
  BY <1>28 DEF ClaimFails, Goto
<1>29. ASSUME NEW o \in Owners, ShutdownSeen(o)
       PROVE  Discoverable'
  BY <1>29 DEF ShutdownSeen, Goto
<1>30. ASSUME NEW o \in Owners, Cancelled(o)
       PROVE  Discoverable'
  BY <1>30 DEF Cancelled, CallOver, Goto
<1>31. ASSUME NEW o \in Owners, RemovesOwned(o)
       PROVE  Discoverable'
  BY <1>31 DEF RemovesOwned, Goto
<1>32. ASSUME NEW o \in Owners, RouterCloses(o)
       PROVE  Discoverable'
  BY <1>32 DEF RouterCloses, Goto
<1>33. ASSUME NEW o \in Owners, RouterDrains(o)
       PROVE  Discoverable'
  BY <1>33 DEF RouterDrains, Drained, Handled, Goto
<1>34. ASSUME NEW o \in Owners, RouterForced(o)
       PROVE  Discoverable'
  BY <1>34 DEF RouterForced
<1>35. ASSUME NEW o \in Owners, Crash(o)
       PROVE  Discoverable'
  BY <1>35 DEF Crash, Vanish, Goto
<1>36. ASSUME NEW o \in Hosts, Interrupted(o)
       PROVE  Discoverable'
  BY <1>36 DEF Interrupted, Goto
<1>37. CASE UNCHANGED vars
  BY <1>37
<1> QED
  BY <1>1, <1>2, <1>3, <1>4, <1>5, <1>6, <1>7, <1>8, <1>9, <1>10, <1>11, <1>12, <1>13,
     <1>14, <1>15, <1>16, <1>17, <1>18, <1>19, <1>20, <1>21, <1>22, <1>23, <1>24,
     <1>25, <1>26, <1>27, <1>28, <1>29, <1>30, <1>31, <1>32, <1>33, <1>34, <1>35,
     <1>36, <1>37
     DEF Next, CommandStep, StartStep, CAStep, OwnerStep, Owners, Hosts

\* A step that takes the PAC setting from no runtime whose owner goes on.
PacStays ==
  \A o \in Hosts : o \in running \ ending /\ lock = o /\ pac = o => pac' = o

\* Nor does it take the PAC setting from another owner's runtime.
LEMMA RoutingStep ==
  ASSUME TypeOK, TargetInv, TenureInv, RouterInv, CallInv, AdmittedInv, StopInv,
         SoleStopInv, [Next]_vars
  PROVE  PacStays
<1> USE KindsDiffer
    DEF TypeOK, TargetInv, StopInv, TenureInv, RouterInv, CallInv, AdmittedInv, SoleStopInv,
        PacStays, Alive,
        vars, ownerVars, Procs, Owners, Hosts, ProcOrNone, OwnerOrNone, Steps, Calls,
        Preparing, Answering, Closing, Working, Own
<1>1. ASSUME NEW x \in Procs, Discover(x)
       PROVE  PacStays
  BY <1>1 DEF Discover, Answers, Route, Routed, Goto
<1>2. ASSUME NEW x \in Procs, DiscoverNobody(x)
       PROVE  PacStays
  BY <1>2 DEF DiscoverNobody, Goto
<1>3. ASSUME NEW x \in Procs, Locks(x)
       PROVE  PacStays
  BY <1>3 DEF Locks, AtLock, LockFree, Goto
<1>4. ASSUME NEW x \in Procs, LockTaken(x)
       PROVE  PacStays
  BY <1>4 DEF LockTaken, AtLock, Goto
<1>5. ASSUME NEW x \in Procs, OwnerlessCleanup(x)
       PROVE  PacStays
  BY <1>5 DEF OwnerlessCleanup, Goto
<1>6. ASSUME NEW x \in Procs, Release(x)
       PROVE  PacStays
  BY <1>6 DEF Release, Goto
<1>7. ASSUME NEW x \in Procs, Exit(x)
       PROVE  PacStays
  BY <1>7 DEF Exit, Vanish, Goto
<1>8. ASSUME NEW x \in Procs, CallFails(x)
       PROVE  PacStays
  BY <1>8 DEF CallFails, Answers, Alive, Goto
<1>9. ASSUME NEW x \in Procs, StopBegins(x)
       PROVE  PacStays
  BY <1>9 DEF StopBegins, Reaches, Answers, Goto
<1>10. ASSUME NEW x \in Procs, StopSettles(x)
       PROVE  PacStays
  BY <1>10 DEF StopSettles, Settled, Alive, Goto
<1>11. ASSUME NEW x \in Procs, StopOwns(x)
       PROVE  PacStays
  BY <1>11 DEF StopOwns, Alive, MutationOver, StopReturn, Goto
<1>12. ASSUME NEW x \in Procs, StopRemoves(x)
       PROVE  PacStays
  BY <1>12 DEF StopRemoves, Alive, StopReturn, Goto
<1>13. ASSUME NEW s \in Starts, StartCleans(s)
       PROVE  PacStays
  BY <1>13 DEF StartCleans, Answers, Route, Routed, Goto
<1>14. ASSUME NEW s \in Starts, StartCalls(s)
       PROVE  PacStays
  BY <1>14 DEF StartCalls, Reaches, Answers, CallEnds
<1>15. ASSUME NEW s \in Starts, StartActivates(s)
       PROVE  PacStays
  BY <1>15 DEF StartActivates, Starting, CallEnds
<1>16. ASSUME NEW s \in Starts, StartFails(s)
       PROVE  PacStays
  BY <1>16 DEF StartFails, Starting, CallEnds
<1>17. ASSUME NEW s \in Starts, StartAsks(s)
       PROVE  PacStays
  BY <1>17 DEF StartAsks, Starting, CallEnds
<1>18. ASSUME NEW s \in Starts, RoutedReturns(s)
       PROVE  PacStays
  BY <1>18 DEF RoutedReturns, Goto
<1>19. ASSUME NEW s \in Starts, ActivationFailed(s)
       PROVE  PacStays
  BY <1>19 DEF ActivationFailed, Goto
<1>20. ASSUME NEW s \in Starts, UserAnswers(s)
       PROVE  PacStays
  BY <1>20 DEF UserAnswers, CallEnds
<1>21. ASSUME NEW s \in Starts, PromptEnds(s)
       PROVE  PacStays
  BY <1>21 DEF PromptEnds, CallEnds
<1>22. ASSUME NEW s \in Serves, ServeVerifies(s)
       PROVE  PacStays
  BY <1>22 DEF ServeVerifies, Answers, Goto
<1>23. ASSUME NEW c \in CACommands, CAAdmits(c)
       PROVE  PacStays
  BY <1>23 DEF CAAdmits, Reaches, Answers, Goto
<1>24. ASSUME NEW c \in CACommands, CARefused(c)
       PROVE  PacStays
  BY <1>24 DEF CARefused, Reaches, Answers, CAReturn, Goto
<1>25. ASSUME NEW c \in CACommands, CASettles(c)
       PROVE  PacStays
  BY <1>25 DEF CASettles, CAReturn, Goto
<1>26. ASSUME NEW c \in CACommands, TransientEnds(c)
       PROVE  PacStays
  BY <1>26 DEF TransientEnds, Goto
<1>27. ASSUME NEW o \in Owners, Claim(o)
       PROVE  PacStays
  BY <1>27 DEF Claim, Goto
<1>28. ASSUME NEW o \in Owners, ClaimFails(o)
       PROVE  PacStays
  BY <1>28 DEF ClaimFails, Goto
<1>29. ASSUME NEW o \in Owners, ShutdownSeen(o)
       PROVE  PacStays
  BY <1>29 DEF ShutdownSeen, Goto
<1>30. ASSUME NEW o \in Owners, Cancelled(o)
       PROVE  PacStays
  BY <1>30 DEF Cancelled, CallOver, Goto
<1>31. ASSUME NEW o \in Owners, RemovesOwned(o)
       PROVE  PacStays
  BY <1>31 DEF RemovesOwned, Goto
<1>32. ASSUME NEW o \in Owners, RouterCloses(o)
       PROVE  PacStays
  BY <1>32 DEF RouterCloses, Goto
<1>33. ASSUME NEW o \in Owners, RouterDrains(o)
       PROVE  PacStays
  BY <1>33 DEF RouterDrains, Drained, Handled, Goto
<1>34. ASSUME NEW o \in Owners, RouterForced(o)
       PROVE  PacStays
  BY <1>34 DEF RouterForced
<1>35. ASSUME NEW o \in Owners, Crash(o)
       PROVE  PacStays
  BY <1>35 DEF Crash, Vanish, Goto
<1>36. ASSUME NEW o \in Hosts, Interrupted(o)
       PROVE  PacStays
  BY <1>36 DEF Interrupted, Goto
<1>37. CASE UNCHANGED vars
  BY <1>37
<1> QED
  BY <1>1, <1>2, <1>3, <1>4, <1>5, <1>6, <1>7, <1>8, <1>9, <1>10, <1>11, <1>12, <1>13,
     <1>14, <1>15, <1>16, <1>17, <1>18, <1>19, <1>20, <1>21, <1>22, <1>23, <1>24,
     <1>25, <1>26, <1>27, <1>28, <1>29, <1>30, <1>31, <1>32, <1>33, <1>34, <1>35,
     <1>36, <1>37
     DEF Next, CommandStep, StartStep, CAStep, OwnerStep, Owners, Hosts

\* With one stop, all of it holds at every step.
LEMMA SoleInvHolds ==
  ASSUME OneStop
  PROVE  Spec => []SoleInv
<1>1. Init => SoleInv
  <2>1. Init => SoleStopInv /\ Discoverable
    BY DEF Init, SoleStopInv, Discoverable, Procs, Owners, Hosts
  <2> QED
    BY <2>1, InvariantInit DEF SoleInv
<1>2. SoleInv /\ [Next]_vars => SoleInv'
  <2> SUFFICES ASSUME SoleInv, [Next]_vars
               PROVE  SoleInv'
    OBVIOUS
  <2>1. OwnershipInv'
    BY InvariantStep DEF SoleInv
  <2>2. SoleStopInv'
    BY SoleStopStep DEF SoleInv, OwnershipInv
  <2>3. Discoverable'
    BY DiscoverableStep DEF SoleInv, OwnershipInv
  <2> QED
    BY <2>1, <2>2, <2>3 DEF SoleInv
<1> QED
  BY <1>1, <1>2, PTL DEF Spec

\* With at most one stop, the Gateway State Cache leads to a host until the host
\* begins to end (cleanRuntime, RemoveOwned, removeOwnedCache).
THEOREM HostStaysDiscoverable ==
  ASSUME OneStop
  PROVE  Spec => []Discoverable
<1>1. SoleInv => Discoverable
  BY DEF SoleInv
<1> QED
  BY <1>1, SoleInvHolds, PTL

\* With at most one stop, nobody takes the PAC setting away from a host's
\* runtime but the stop of that host (cleanGatewayFootprint, Deliver).
THEOREM RuntimeKeepsRouting ==
  ASSUME OneStop
  PROVE  Spec => RoutingKept
<1>1. SoleInv /\ [Next]_vars => [PacStays]_vars
  BY RoutingStep DEF SoleInv, OwnershipInv
<1> QED
  BY <1>1, SoleInvHolds, PTL DEF Spec, RoutingKept, PacStays

(***************************************************************************)
(* What ends a runtime.                                                    *)
(***************************************************************************)
\* A runtime's host leaves only after a stop has reached it.
LEMMA RunStep ==
  ASSUME NEW hosts, Sole(hosts), TypeOK, TargetInv, TenureInv, RouterInv, CallInv,
         AdmittedInv, StopInv, RunInv(hosts), [Next]_vars
  PROVE  RunInv(hosts)'
<1> USE KindsDiffer
    DEF TypeOK, TargetInv, StopInv, TenureInv, RouterInv, CallInv, AdmittedInv, Sole, RunInv,
        ServeInv,
        vars, ownerVars, Procs, Owners, Hosts, ProcOrNone, OwnerOrNone, Steps, Calls,
        Preparing, Answering, Closing, Working, Own
<1>1. ASSUME NEW x \in Procs, Discover(x)
       PROVE  RunInv(hosts)'
  BY <1>1 DEF Discover, Answers, Route, Routed, Goto
<1>2. ASSUME NEW x \in Procs, DiscoverNobody(x)
       PROVE  RunInv(hosts)'
  BY <1>2 DEF DiscoverNobody, Goto
<1>3. ASSUME NEW x \in Procs, Locks(x)
       PROVE  RunInv(hosts)'
  BY <1>3 DEF Locks, AtLock, LockFree, Goto
<1>4. ASSUME NEW x \in Procs, LockTaken(x)
       PROVE  RunInv(hosts)'
  BY <1>4 DEF LockTaken, AtLock, Goto
<1>5. ASSUME NEW x \in Procs, OwnerlessCleanup(x)
       PROVE  RunInv(hosts)'
  BY <1>5 DEF OwnerlessCleanup, Goto
<1>6. ASSUME NEW x \in Procs, Release(x)
       PROVE  RunInv(hosts)'
  BY <1>6 DEF Release, Goto
<1>7. ASSUME NEW x \in Procs, Exit(x)
       PROVE  RunInv(hosts)'
  BY <1>7 DEF Exit, Vanish, Goto
<1>8. ASSUME NEW x \in Procs, CallFails(x)
       PROVE  RunInv(hosts)'
  BY <1>8 DEF CallFails, Answers, Alive, Goto
<1>9. ASSUME NEW x \in Procs, StopBegins(x)
       PROVE  RunInv(hosts)'
  BY <1>9 DEF StopBegins, Reaches, Answers, Goto
<1>10. ASSUME NEW x \in Procs, StopSettles(x)
       PROVE  RunInv(hosts)'
  BY <1>10 DEF StopSettles, Settled, Alive, Goto
<1>11. ASSUME NEW x \in Procs, StopOwns(x)
       PROVE  RunInv(hosts)'
  BY <1>11 DEF StopOwns, Alive, MutationOver, StopReturn, Goto
<1>12. ASSUME NEW x \in Procs, StopRemoves(x)
       PROVE  RunInv(hosts)'
  BY <1>12 DEF StopRemoves, Alive, StopReturn, Goto
<1>13. ASSUME NEW s \in Starts, StartCleans(s)
       PROVE  RunInv(hosts)'
  BY <1>13 DEF StartCleans, Answers, Route, Routed, Goto
<1>14. ASSUME NEW s \in Starts, StartCalls(s)
       PROVE  RunInv(hosts)'
  BY <1>14 DEF StartCalls, Reaches, Answers, CallEnds
<1>15. ASSUME NEW s \in Starts, StartActivates(s)
       PROVE  RunInv(hosts)'
  BY <1>15 DEF StartActivates, Starting, CallEnds
<1>16. ASSUME NEW s \in Starts, StartFails(s)
       PROVE  RunInv(hosts)'
  BY <1>16 DEF StartFails, Starting, CallEnds
<1>17. ASSUME NEW s \in Starts, StartAsks(s)
       PROVE  RunInv(hosts)'
  BY <1>17 DEF StartAsks, Starting, CallEnds
<1>18. ASSUME NEW s \in Starts, RoutedReturns(s)
       PROVE  RunInv(hosts)'
  BY <1>18 DEF RoutedReturns, Goto
<1>19. ASSUME NEW s \in Starts, ActivationFailed(s)
       PROVE  RunInv(hosts)'
  BY <1>19 DEF ActivationFailed, Goto
<1>20. ASSUME NEW s \in Starts, UserAnswers(s)
       PROVE  RunInv(hosts)'
  BY <1>20 DEF UserAnswers, CallEnds
<1>21. ASSUME NEW s \in Starts, PromptEnds(s)
       PROVE  RunInv(hosts)'
  BY <1>21 DEF PromptEnds, CallEnds
<1>22. ASSUME NEW s \in Serves, ServeVerifies(s)
       PROVE  RunInv(hosts)'
  BY <1>22 DEF ServeVerifies, Answers, Goto
<1>23. ASSUME NEW c \in CACommands, CAAdmits(c)
       PROVE  RunInv(hosts)'
  BY <1>23 DEF CAAdmits, Reaches, Answers, Goto
<1>24. ASSUME NEW c \in CACommands, CARefused(c)
       PROVE  RunInv(hosts)'
  BY <1>24 DEF CARefused, Reaches, Answers, CAReturn, Goto
<1>25. ASSUME NEW c \in CACommands, CASettles(c)
       PROVE  RunInv(hosts)'
  BY <1>25 DEF CASettles, CAReturn, Goto
<1>26. ASSUME NEW c \in CACommands, TransientEnds(c)
       PROVE  RunInv(hosts)'
  BY <1>26 DEF TransientEnds, Goto
<1>27. ASSUME NEW o \in Owners, Claim(o)
       PROVE  RunInv(hosts)'
  BY <1>27 DEF Claim, Goto
<1>28. ASSUME NEW o \in Owners, ClaimFails(o)
       PROVE  RunInv(hosts)'
  BY <1>28 DEF ClaimFails, Goto
<1>29. ASSUME NEW o \in Owners, ShutdownSeen(o)
       PROVE  RunInv(hosts)'
  BY <1>29 DEF ShutdownSeen, Goto
<1>30. ASSUME NEW o \in Owners, Cancelled(o)
       PROVE  RunInv(hosts)'
  BY <1>30 DEF Cancelled, CallOver, Goto
<1>31. ASSUME NEW o \in Owners, RemovesOwned(o)
       PROVE  RunInv(hosts)'
  BY <1>31 DEF RemovesOwned, Goto
<1>32. ASSUME NEW o \in Owners, RouterCloses(o)
       PROVE  RunInv(hosts)'
  BY <1>32 DEF RouterCloses, Goto
<1>33. ASSUME NEW o \in Owners, RouterDrains(o)
       PROVE  RunInv(hosts)'
  BY <1>33 DEF RouterDrains, Drained, Handled, Goto
<1>34. ASSUME NEW o \in Owners, RouterForced(o)
       PROVE  RunInv(hosts)'
  BY <1>34 DEF RouterForced
<1>35. ASSUME NEW o \in Owners, Crash(o)
       PROVE  RunInv(hosts)'
  BY <1>35 DEF Crash, Vanish, Goto
<1>36. ASSUME NEW o \in Hosts, Interrupted(o)
       PROVE  RunInv(hosts)'
  BY <1>36 DEF Interrupted, Goto
<1>37. CASE UNCHANGED vars
  BY <1>37
<1> QED
  BY <1>1, <1>2, <1>3, <1>4, <1>5, <1>6, <1>7, <1>8, <1>9, <1>10, <1>11, <1>12, <1>13,
     <1>14, <1>15, <1>16, <1>17, <1>18, <1>19, <1>20, <1>21, <1>22, <1>23, <1>24,
     <1>25, <1>26, <1>27, <1>28, <1>29, <1>30, <1>31, <1>32, <1>33, <1>34, <1>35,
     <1>36, <1>37
     DEF Next, CommandStep, StartStep, CAStep, OwnerStep, Owners, Hosts

\* A step that ends no runtime but by a stop or the death of its process.
RuntimesStay(hosts) ==
  \A o \in hosts : o \in running \ running' => o \in ending \/ pc'[o] = "crashed"

\* Nobody else ends one.
LEMMA RunStays ==
  ASSUME NEW hosts, Sole(hosts), TypeOK, TargetInv, TenureInv, RouterInv, CallInv,
         AdmittedInv, StopInv, RunInv(hosts), [Next]_vars
  PROVE  RuntimesStay(hosts)
<1> USE KindsDiffer
    DEF TypeOK, TargetInv, StopInv, TenureInv, RouterInv, CallInv, AdmittedInv, Sole, RunInv,
        ServeInv, RuntimesStay,
        vars, ownerVars, Procs, Owners, Hosts, ProcOrNone, OwnerOrNone, Steps, Calls,
        Preparing, Answering, Closing, Working, Own
<1>1. ASSUME NEW x \in Procs, Discover(x)
       PROVE  RuntimesStay(hosts)
  BY <1>1 DEF Discover, Answers, Route, Routed, Goto
<1>2. ASSUME NEW x \in Procs, DiscoverNobody(x)
       PROVE  RuntimesStay(hosts)
  BY <1>2 DEF DiscoverNobody, Goto
<1>3. ASSUME NEW x \in Procs, Locks(x)
       PROVE  RuntimesStay(hosts)
  BY <1>3 DEF Locks, AtLock, LockFree, Goto
<1>4. ASSUME NEW x \in Procs, LockTaken(x)
       PROVE  RuntimesStay(hosts)
  BY <1>4 DEF LockTaken, AtLock, Goto
<1>5. ASSUME NEW x \in Procs, OwnerlessCleanup(x)
       PROVE  RuntimesStay(hosts)
  BY <1>5 DEF OwnerlessCleanup, Goto
<1>6. ASSUME NEW x \in Procs, Release(x)
       PROVE  RuntimesStay(hosts)
  BY <1>6 DEF Release, Goto
<1>7. ASSUME NEW x \in Procs, Exit(x)
       PROVE  RuntimesStay(hosts)
  BY <1>7 DEF Exit, Vanish, Goto
<1>8. ASSUME NEW x \in Procs, CallFails(x)
       PROVE  RuntimesStay(hosts)
  BY <1>8 DEF CallFails, Answers, Alive, Goto
<1>9. ASSUME NEW x \in Procs, StopBegins(x)
       PROVE  RuntimesStay(hosts)
  BY <1>9 DEF StopBegins, Reaches, Answers, Goto
<1>10. ASSUME NEW x \in Procs, StopSettles(x)
       PROVE  RuntimesStay(hosts)
  BY <1>10 DEF StopSettles, Settled, Alive, Goto
<1>11. ASSUME NEW x \in Procs, StopOwns(x)
       PROVE  RuntimesStay(hosts)
  BY <1>11 DEF StopOwns, Alive, MutationOver, StopReturn, Goto
<1>12. ASSUME NEW x \in Procs, StopRemoves(x)
       PROVE  RuntimesStay(hosts)
  BY <1>12 DEF StopRemoves, Alive, StopReturn, Goto
<1>13. ASSUME NEW s \in Starts, StartCleans(s)
       PROVE  RuntimesStay(hosts)
  BY <1>13 DEF StartCleans, Answers, Route, Routed, Goto
<1>14. ASSUME NEW s \in Starts, StartCalls(s)
       PROVE  RuntimesStay(hosts)
  BY <1>14 DEF StartCalls, Reaches, Answers, CallEnds
<1>15. ASSUME NEW s \in Starts, StartActivates(s)
       PROVE  RuntimesStay(hosts)
  BY <1>15 DEF StartActivates, Starting, CallEnds
<1>16. ASSUME NEW s \in Starts, StartFails(s)
       PROVE  RuntimesStay(hosts)
  BY <1>16 DEF StartFails, Starting, CallEnds
<1>17. ASSUME NEW s \in Starts, StartAsks(s)
       PROVE  RuntimesStay(hosts)
  BY <1>17 DEF StartAsks, Starting, CallEnds
<1>18. ASSUME NEW s \in Starts, RoutedReturns(s)
       PROVE  RuntimesStay(hosts)
  BY <1>18 DEF RoutedReturns, Goto
<1>19. ASSUME NEW s \in Starts, ActivationFailed(s)
       PROVE  RuntimesStay(hosts)
  BY <1>19 DEF ActivationFailed, Goto
<1>20. ASSUME NEW s \in Starts, UserAnswers(s)
       PROVE  RuntimesStay(hosts)
  BY <1>20 DEF UserAnswers, CallEnds
<1>21. ASSUME NEW s \in Starts, PromptEnds(s)
       PROVE  RuntimesStay(hosts)
  BY <1>21 DEF PromptEnds, CallEnds
<1>22. ASSUME NEW s \in Serves, ServeVerifies(s)
       PROVE  RuntimesStay(hosts)
  BY <1>22 DEF ServeVerifies, Answers, Goto
<1>23. ASSUME NEW c \in CACommands, CAAdmits(c)
       PROVE  RuntimesStay(hosts)
  BY <1>23 DEF CAAdmits, Reaches, Answers, Goto
<1>24. ASSUME NEW c \in CACommands, CARefused(c)
       PROVE  RuntimesStay(hosts)
  BY <1>24 DEF CARefused, Reaches, Answers, CAReturn, Goto
<1>25. ASSUME NEW c \in CACommands, CASettles(c)
       PROVE  RuntimesStay(hosts)
  BY <1>25 DEF CASettles, CAReturn, Goto
<1>26. ASSUME NEW c \in CACommands, TransientEnds(c)
       PROVE  RuntimesStay(hosts)
  BY <1>26 DEF TransientEnds, Goto
<1>27. ASSUME NEW o \in Owners, Claim(o)
       PROVE  RuntimesStay(hosts)
  BY <1>27 DEF Claim, Goto
<1>28. ASSUME NEW o \in Owners, ClaimFails(o)
       PROVE  RuntimesStay(hosts)
  BY <1>28 DEF ClaimFails, Goto
<1>29. ASSUME NEW o \in Owners, ShutdownSeen(o)
       PROVE  RuntimesStay(hosts)
  BY <1>29 DEF ShutdownSeen, Goto
<1>30. ASSUME NEW o \in Owners, Cancelled(o)
       PROVE  RuntimesStay(hosts)
  BY <1>30 DEF Cancelled, CallOver, Goto
<1>31. ASSUME NEW o \in Owners, RemovesOwned(o)
       PROVE  RuntimesStay(hosts)
  BY <1>31 DEF RemovesOwned, Goto
<1>32. ASSUME NEW o \in Owners, RouterCloses(o)
       PROVE  RuntimesStay(hosts)
  BY <1>32 DEF RouterCloses, Goto
<1>33. ASSUME NEW o \in Owners, RouterDrains(o)
       PROVE  RuntimesStay(hosts)
  BY <1>33 DEF RouterDrains, Drained, Handled, Goto
<1>34. ASSUME NEW o \in Owners, RouterForced(o)
       PROVE  RuntimesStay(hosts)
  BY <1>34 DEF RouterForced
<1>35. ASSUME NEW o \in Owners, Crash(o)
       PROVE  RuntimesStay(hosts)
  BY <1>35 DEF Crash, Vanish, Goto
<1>36. ASSUME NEW o \in Hosts, Interrupted(o)
       PROVE  RuntimesStay(hosts)
  BY <1>36 DEF Interrupted, Goto
<1>37. CASE UNCHANGED vars
  BY <1>37
<1> QED
  BY <1>1, <1>2, <1>3, <1>4, <1>5, <1>6, <1>7, <1>8, <1>9, <1>10, <1>11, <1>12, <1>13,
     <1>14, <1>15, <1>16, <1>17, <1>18, <1>19, <1>20, <1>21, <1>22, <1>23, <1>24,
     <1>25, <1>26, <1>27, <1>28, <1>29, <1>30, <1>31, <1>32, <1>33, <1>34, <1>35,
     <1>36, <1>37
     DEF Next, CommandStep, StartStep, CAStep, OwnerStep, Owners, Hosts

\* No runtime, no host.
LEMMA RunInit ==
  ASSUME NEW hosts, Sole(hosts), Init
  PROVE  OwnershipInv /\ RunInv(hosts)
BY KindsDiffer, InvariantInit DEF Sole, Init, RunInv, ServeInv, Procs, Hosts

\* The runtime of a serve ends by a stop, or with a process that dies, whatever
\* starts, stops and CA commands are routed to it (serve, waitForOwnerEnd).
THEOREM ServedRuntimePreserved ==
  Spec => [][\A o \in Serves :
               o \in running \ running' => o \in ending \/ pc'[o] = "crashed"]_vars
<1> DEFINE Inv == OwnershipInv /\ RunInv(Serves)
<1>1. Sole(Serves)
  BY KindsDiffer DEF Sole, Hosts
<1>2. Init => Inv
  BY <1>1, RunInit
<1>3. Inv /\ [Next]_vars => Inv'
  BY <1>1, InvariantStep, RunStep DEF OwnershipInv
<1>4. Inv /\ [Next]_vars =>
        [\A o \in Serves : o \in running \ running' => o \in ending \/ pc'[o] = "crashed"]_vars
  BY <1>1, RunStays DEF OwnershipInv, RuntimesStay
<1> QED
  BY <1>2, <1>3, <1>4, PTL DEF Spec

\* So does the runtime of any host, as long as there is one start at most.  (With
\* two, the run ownership_orphan shows how a host leaves the other one's.)
THEOREM SoleRuntimePreserved ==
  ASSUME OneStart
  PROVE  Spec => RuntimePreserved
<1> DEFINE Inv == OwnershipInv /\ RunInv(Hosts)
<1>1. Sole(Hosts)
  BY DEF Sole, OneStart
<1>2. Init => Inv
  BY <1>1, RunInit
<1>3. Inv /\ [Next]_vars => Inv'
  BY <1>1, InvariantStep, RunStep DEF OwnershipInv
<1>4. Inv /\ [Next]_vars =>
        [\A o \in Hosts : o \in running \ running' => o \in ending \/ pc'[o] = "crashed"]_vars
  BY <1>1, RunStays DEF OwnershipInv, RuntimesStay
<1> QED
  BY <1>2, <1>3, <1>4, PTL DEF Spec, RuntimePreserved
=============================================================================
